---- MODULE Spec2Model ----
(***************************************************************************)
(* Order-execution and turn-processing core of Wormhole-Control.          *)
(*                                                                         *)
(* The model follows src/unit_orders.py (Order), src/unit_components.py   *)
(* (Hyperdrive, Commander, HyperspaceInhibitionFieldEmitter),              *)
(* src/turn_processor.py (TurnProcessor.process_turn), src/galaxy.py,     *)
(* src/geometry.py, src/pathfinding.py and src/entities.py (Unit.update). *)
(*                                                                         *)
(* Positions are fixed-point numbers: one tick is 1/TicksPerUnit of a     *)
(* logical sector unit, so that radius * 1.0001 of the zones used here is *)
(* a whole number of ticks and "distance < 0.01" means "same tick".       *)
(* Python's None is the empty sequence, a present value v is <<v>>; an    *)
(* absent order id is NoOrder.                                            *)
(***************************************************************************)
EXTENDS Integers, Sequences, FiniteSets, TLC

\* ------------------------------------------------------------------------
\* Bounds of the model
\* ------------------------------------------------------------------------
\* orders handed to add_order in one behaviour
MaxOrdersIssued == 2
\* radius of the hex grid of every system (StarSystem.radius)
SystemRadius == 2
\* orders one commander is handed while no turn is processed
MaxQueued == 4
\* systems one system has a wormhole to, in the graphs handed to
\* find_intersystem_path
MaxNeighbours == 2
\* units the constructors finish before CONSTRUCT orders stop being given
MaxCreated == 2
\* credits above which no more taxes are paid in
MaxCredits == 2000

\* ------------------------------------------------------------------------
\* Program constants
\* ------------------------------------------------------------------------
TicksPerUnit == 20
\* populations are counted in hundredths of an inhabitant
PopulationScale == 100
DEFAULT_HYPERDRIVE_RECHARGE_DURATION == 3
DEFAULT_JUMP_RANGE == 5
\* ColonyComponent.max_cargo
MAX_CARGO == 100
\* TAX_RATE, in percent
TAX_PERCENT == 10
\* the largest radius Galaxy.generate_systems gives a system: random.randint(5, 8)
MAX_SYSTEM_RADIUS == 8
SECTOR_CIRCLE_RADIUS_LOGICAL == 1000 * TicksPerUnit
HEX_SIZE == 25
SYSTEM_CENTER_IN_PX == [x |-> 1280 \div 2, y |-> 720 \div 2]
WormholeInhibitionFieldRadius == 500 * TicksPerUnit
StarInhibitionFieldRadius == 900 * TicksPerUnit
MoonInhibitionFieldRadius == 600 * TicksPerUnit

None == << >>
Some(v) == << v >>
IsSet(opt) == opt # << >>
NoOrder == 0 - 1

Abs(n) == IF n < 0 THEN 0 - n ELSE n
Max(a, b) == IF a >= b THEN a ELSE b
Min(a, b) == IF a <= b THEN a ELSE b

\* ------------------------------------------------------------------------
\* geometry.py
\* ------------------------------------------------------------------------
Position(px, py) == [x |-> px, y |-> py]
Circle(c, r) == [center |-> c, radius |-> r]

RECURSIVE ISqrtIter(_, _, _)
ISqrtIter(n, lo, hi) ==
    \* largest k in lo..hi with k*k <= n (math.sqrt, truncated to a tick)
    IF lo >= hi THEN lo
    ELSE LET mid == (lo + hi + 1) \div 2
         IN IF mid * mid <= n THEN ISqrtIter(n, mid, hi) ELSE ISqrtIter(n, lo, mid - 1)

ISqrt(n) == ISqrtIter(n, 0, 46340)

distance_sq(p1, p2) == (p1.x - p2.x) * (p1.x - p2.x) + (p1.y - p2.y) * (p1.y - p2.y)

distance(p1, p2) ==
    IF p1.y = p2.y THEN Abs(p1.x - p2.x)
    ELSE IF p1.x = p2.x THEN Abs(p1.y - p2.y)
    ELSE ISqrt(distance_sq(p1, p2))

\* distance(p1, p2) < 0.01: closer than one tick
Arrived(p1, p2) == p1 = p2

hex_distance(a, b) ==
    (Abs(a[1] - b[1]) + Abs(a[1] + a[2] - b[1] - b[2]) + Abs(a[2] - b[2])) \div 2

is_point_in_circle(point, circle) ==
    distance_sq(point, circle.center) <= circle.radius * circle.radius

do_circles_intersect(c1, c2) ==
    distance_sq(c1.center, c2.center) < (c1.radius + c2.radius) * (c1.radius + c2.radius)

is_circle_contained(inner, outer) ==
    \* dist + inner.radius <= outer.radius, without the square root
    /\ inner.radius <= outer.radius
    /\ distance_sq(inner.center, outer.center)
         <= (outer.radius - inner.radius) * (outer.radius - inner.radius)

\* radius * 1.0001
EpsilonRadius(r) == r + (r \div 10000)

get_closest_point_on_circle_edge(point, circle) ==
    LET er == EpsilonRadius(circle.radius)
        c  == circle.center
        d  == distance(point, c)
    IN IF point = c THEN Position(c.x + er, c.y)
       ELSE Position(c.x + ((point.x - c.x) * er) \div d,
                     c.y + ((point.y - c.y) * er) \div d)

\* a step of the full length whatever the distance left
StepPastTarget(current, target, max_distance) ==
    IF current = target THEN target
    ELSE Position(current.x + ((target.x - current.x) * max_distance) \div distance(current, target),
                  current.y + ((target.y - current.y) * max_distance) \div distance(current, target))

\* sector_utils.move_towards_position
move_towards_position(current, target, max_distance) ==
    LET dist == distance(current, target)
    IN IF distance_sq(current, target) <= max_distance * max_distance THEN target
       ELSE Position(current.x + ((target.x - current.x) * max_distance) \div dist,
                     current.y + ((target.y - current.y) * max_distance) \div dist)

\* ------------------------------------------------------------------------
\* hexgrid_utils.py and pathfinding.py
\* ------------------------------------------------------------------------
\* int(HEX_SIZE * (SQRT3 * q + SQRT3 / 2 * r) + cx), int(HEX_SIZE * 3/2 * r + cy),
\* used by the planner as a sector position (so scaled to ticks)
hex_to_pixel(q, r) ==
    Position(((HEX_SIZE * 1732051 * (2 * q + r)) \div 2000000 + SYSTEM_CENTER_IN_PX.x) * TicksPerUnit,
             ((HEX_SIZE * 3 * r) \div 2 + SYSTEM_CENTER_IN_PX.y) * TicksPerUnit)

\* Python round() of the rational num/den (den > 0): half goes to even
PyRound(num, den) ==
    LET f == num \div den
        twice == 2 * (num - f * den)
    IN IF twice < den THEN f
       ELSE IF twice > den THEN f + 1
       ELSE IF f % 2 = 0 THEN f ELSE f + 1

_axial_to_cube(h) == << h[1], 0 - h[1] - h[2], h[2] >>

\* cube coordinates as numerators over the common denominator den
_cube_lerp(a, b, i, den) ==
    << a[1] * den + (b[1] - a[1]) * i,
       a[2] * den + (b[2] - a[2]) * i,
       a[3] * den + (b[3] - a[3]) * i >>

_cube_round(cube, den) ==
    LET rx == PyRound(cube[1], den)
        ry == PyRound(cube[2], den)
        rz == PyRound(cube[3], den)
        x_diff == Abs(rx * den - cube[1])
        y_diff == Abs(ry * den - cube[2])
        z_diff == Abs(rz * den - cube[3])
    IN IF x_diff > y_diff /\ x_diff > z_diff THEN << 0 - ry - rz, ry, rz >>
       ELSE IF y_diff > z_diff THEN << rx, 0 - rx - rz, rz >>
       ELSE << rx, ry, 0 - rx - ry >>

_cube_to_axial(cube) == << cube[1], cube[3] >>

CeilDiv(a, b) == (a + b - 1) \div b

RECURSIVE HexPathFrom(_, _, _, _, _)
HexPathFrom(start_cube, end_cube, num_segments, i, path) ==
    IF i > num_segments THEN path
    ELSE LET waypoint_hex ==
                 _cube_to_axial(_cube_round(_cube_lerp(start_cube, end_cube, i, num_segments),
                                            num_segments))
         IN HexPathFrom(start_cube, end_cube, num_segments, i + 1,
                        IF path = << >> \/ path[Len(path)] # waypoint_hex
                        THEN Append(path, waypoint_hex) ELSE path)

find_hex_jump_path(start_hex, end_hex, max_range) ==
    LET total_distance == hex_distance(start_hex, end_hex)
    IN IF total_distance <= max_range THEN << end_hex >>
       ELSE LET num_segments == CeilDiv(total_distance, max_range)
                path == HexPathFrom(_axial_to_cube(start_hex), _axial_to_cube(end_hex),
                                    num_segments, 1, << >>)
            IN IF path = << >> \/ path[Len(path)] # end_hex
               THEN IF path # << >> /\ hex_distance(path[Len(path)], end_hex) = 0
                    THEN [path EXCEPT ![Len(path)] = end_hex]
                    ELSE Append(path, end_hex)
               ELSE path

RECURSIVE Gcd(_, _)
Gcd(a, b) == IF b = 0 THEN a ELSE Gcd(b, a % b)

\* t = i / num_segments is a binary fraction: the floats of _cube_lerp carry
\* no rounding error
BinaryFraction(i, num_segments) ==
    num_segments \div Gcd(i, num_segments) \in { 1, 2, 4, 8, 16, 32 }

\* round() and the comparisons of _cube_round do not hinge on the last bit of
\* a float: no coordinate lies halfway between two integers and, when the
\* rounded coordinates do not add up to zero, one difference is the largest
RoundIsStable(cube, den) ==
    LET rx == PyRound(cube[1], den)
        ry == PyRound(cube[2], den)
        rz == PyRound(cube[3], den)
        x_diff == Abs(rx * den - cube[1])
        y_diff == Abs(ry * den - cube[2])
        z_diff == Abs(rz * den - cube[3])
        largest == Max(x_diff, Max(y_diff, z_diff))
    IN /\ \A k \in 1..3 : 2 * (cube[k] % den) # den
       /\ rx + ry + rz # 0 =>
             Cardinality({ k \in 1..3 : << x_diff, y_diff, z_diff >>[k] = largest }) = 1

\* the calls of find_hex_jump_path whose result is the same in floating point
\* and in exact arithmetic
FloatExact(start_hex, end_hex, max_range) ==
    LET num_segments == CeilDiv(hex_distance(start_hex, end_hex), max_range)
    IN \A i \in 1..num_segments :
          IF BinaryFraction(i, num_segments) THEN TRUE
          ELSE RoundIsStable(_cube_lerp(_axial_to_cube(start_hex), _axial_to_cube(end_hex),
                                        i, num_segments), num_segments)

\* heapq orders the entries (distance, name); names compare as strings
\* system names in the order in which Python compares strings
NameOrder == << "Alpha", "Beta", "Gamma", "Sol", "Vega" >>
NameRank(node) == CHOOSE i \in DOMAIN NameOrder : NameOrder[i] = node

HeapLess(e1, e2) ==
    e1[1] < e2[1] \/ (e1[1] = e2[1] /\ NameRank(e1[2]) < NameRank(e2[2]))

RECURSIVE HeapPush(_, _)
HeapPush(queue, entry) ==
    IF queue = << >> THEN << entry >>
    ELSE IF HeapLess(entry, Head(queue)) THEN << entry >> \o queue
    ELSE << Head(queue) >> \o HeapPush(Tail(queue), entry)

RECURSIVE TraceBackwards(_, _, _)
\* the list as the while loop builds it, from the end node back to the start
TraceBackwards(predecessors, node_trace, path) ==
    IF node_trace = None THEN path
    ELSE TraceBackwards(predecessors, predecessors[node_trace[1]], Append(path, node_trace[1]))

RECURSIVE TracePath(_, _, _)
TracePath(predecessors, node_trace, path) ==
    IF node_trace = None THEN path
    ELSE TracePath(predecessors, predecessors[node_trace[1]], << node_trace[1] >> \o path)

RECURSIVE Relax(_, _, _, _)
\* the "for neighbor in graph[current_node]" loop; st = [distances, predecessors, queue]
Relax(st, current_node, current_distance, neighbors) ==
    IF neighbors = << >> THEN st
    ELSE LET neighbor == Head(neighbors)
             distance_to_neighbor == current_distance + 1
         IN Relax(IF distance_to_neighbor < st.distances[neighbor]
                  THEN [distances |-> [st.distances EXCEPT ![neighbor] = distance_to_neighbor],
                        predecessors |-> [st.predecessors EXCEPT ![neighbor] = Some(current_node)],
                        queue |-> HeapPush(st.queue, << distance_to_neighbor, neighbor >>)]
                  ELSE st,
                  current_node, current_distance, Tail(neighbors))

RECURSIVE DijkstraLoop(_, _, _)
DijkstraLoop(graph, st, end_node) ==
    IF st.queue = << >> THEN None
    ELSE LET current_distance == Head(st.queue)[1]
             current_node == Head(st.queue)[2]
             popped == [st EXCEPT !.queue = Tail(@)]
         IN IF current_distance > st.distances[current_node]
            THEN DijkstraLoop(graph, popped, end_node)
            ELSE IF current_node = end_node
            THEN Some(TracePath(st.predecessors, Some(end_node), << >>))
            ELSE DijkstraLoop(graph, Relax(popped, current_node, current_distance,
                                           graph[current_node]), end_node)

\* graph: node -> sequence of neighbours; Infinity stands for float('inf')
find_intersystem_path(graph, start_node, end_node) ==
    LET Infinity == Cardinality(DOMAIN graph) + 1
    IN IF start_node \notin DOMAIN graph \/ end_node \notin DOMAIN graph THEN None
       ELSE IF start_node = end_node THEN Some(<< start_node >>)
       ELSE DijkstraLoop(graph,
                         [distances |-> [n \in DOMAIN graph |-> IF n = start_node THEN 0 ELSE Infinity],
                          predecessors |-> [n \in DOMAIN graph |-> None],
                          queue |-> << << 0, start_node >> >>],
                         end_node)

\* ------------------------------------------------------------------------
\* The galaxy (galaxy.py, entities.py): two systems linked by a wormhole pair
\* ------------------------------------------------------------------------
\* Galaxy.systems, in insertion order
Systems == << "Sol", "Alpha" >>
SystemNames == { Systems[i] : i \in DOMAIN Systems }

\* StarSystem.generate_grid
Hexes(system_name) ==
    { h \in (0 - SystemRadius .. SystemRadius) \X (0 - SystemRadius .. SystemRadius) :
        /\ Max(0 - SystemRadius, 0 - h[1] - SystemRadius) <= h[2]
        /\ h[2] <= Min(SystemRadius, 0 - h[1] + SystemRadius) }

AllHexes == UNION { Hexes(s) : s \in SystemNames }

\* Galaxy.wormholes, keyed by object id in insertion order (add_wormhole_pair)
WormholeIds == << 1, 2 >>
Wormholes ==
    [ id \in {1, 2} |->
        IF id = 1
        THEN [in_system |-> "Sol", in_hex |-> << 2, 0 >>, position |-> Position(0, 0),
              exit_system_name |-> "Alpha", exit_wormhole_id |-> 2]
        ELSE [in_system |-> "Alpha", in_hex |-> << 0 - 2, 0 >>, position |-> Position(0, 0),
              exit_system_name |-> "Sol", exit_wormhole_id |-> 1] ]

\* The colonisable bodies generate_celestial_bodies has placed, by object id:
\* a moon of Sol. Sol has no planet, so start_new_game finds no homeworld
\* for any player
MoonId == 3
ColonisableBodies ==
    [ id \in { MoonId } |->
        [in_system |-> "Sol", in_hex |-> << 0, 2 >>, position |-> Position(0, 0),
         max_population |-> 50 * PopulationScale, population_growth_percent |-> 1] ]

\* Galaxy.get_celestial_body_by_id
get_celestial_body_by_id(body_id) ==
    IF body_id \in DOMAIN ColonisableBodies THEN Some(body_id) ELSE None

\* Galaxy._build_system_graph
RECURSIVE GraphNeighbours(_, _, _)
GraphNeighbours(system_name, i, acc) ==
    IF i > Len(WormholeIds) THEN acc
    ELSE LET body == Wormholes[WormholeIds[i]]
         IN GraphNeighbours(system_name, i + 1,
                IF /\ body.in_system = system_name
                   /\ body.exit_system_name \in SystemNames
                   /\ \A k \in DOMAIN acc : acc[k] # body.exit_system_name
                THEN Append(acc, body.exit_system_name) ELSE acc)

system_graph == [ s \in SystemNames |-> GraphNeighbours(s, 1, << >>) ]

\* Hex.update_static_inhibition_zones: the star of every system sits in hex
\* (0, 0), a wormhole in its own hex, both at sector position (0, 0)
static_inhibition_zones(system_name, hex) ==
    (IF hex = << 0, 0 >> THEN << Circle(Position(0, 0), StarInhibitionFieldRadius) >> ELSE << >>)
    \o (IF \E id \in DOMAIN Wormholes :
              Wormholes[id].in_system = system_name /\ Wormholes[id].in_hex = hex
        THEN << Circle(Position(0, 0), WormholeInhibitionFieldRadius) >> ELSE << >>)
    \o (IF \E id \in DOMAIN ColonisableBodies :
              /\ ColonisableBodies[id].in_system = system_name
              /\ ColonisableBodies[id].in_hex = hex
        THEN << Circle(Position(0, 0), MoonInhibitionFieldRadius) >> ELSE << >>)

\* Hex.boundary_circle
boundary_circle == Circle(Position(0, 0), SECTOR_CIRCLE_RADIUS_LOGICAL)

\* ------------------------------------------------------------------------
\* Players and units (entities.py Unit.__init__, game.py)
\* ------------------------------------------------------------------------
Players == << 1, 2 >>

Ship == 1
Station == 2
Units == { Ship, Station }

\* a second ship of the first player, in the games that have one
Scout == 3
Fleet == Units \cup { Scout }
\* a ship constructed with the hyperdrive type of the Hyperdrive class's default
Courier == 4

\* the optional components each unit was constructed with
UnitDef ==
    [ u \in Fleet \cup { Courier } |->
        IF u = Courier
        THEN [owner |-> 1,
              engines_speed |-> Some(300 * TicksPerUnit),
              hyperdrive |-> Some([drive_type |-> "BASIC", jump_range |-> 2,
                                   RECHARGE_DURATION |-> DEFAULT_HYPERDRIVE_RECHARGE_DURATION]),
              inhibitor_radius |-> None,
              start_system |-> "Sol", start_hex |-> << 0 - 2, 2 >>, start_position |-> Position(0, 0)]
        ELSE IF u = Scout
        THEN [owner |-> 1,
              engines_speed |-> Some(300 * TicksPerUnit),
              hyperdrive |-> Some([drive_type |-> "ADVANCED", jump_range |-> 2,
                                   RECHARGE_DURATION |-> DEFAULT_HYPERDRIVE_RECHARGE_DURATION]),
              inhibitor_radius |-> None,
              start_system |-> "Sol", start_hex |-> << 2, 0 - 2 >>, start_position |-> Position(0, 0)]
        ELSE IF u = Ship
        THEN [owner |-> 1,
              engines_speed |-> Some(300 * TicksPerUnit),
              hyperdrive |-> Some([drive_type |-> "ADVANCED", jump_range |-> 2,
                                   RECHARGE_DURATION |-> DEFAULT_HYPERDRIVE_RECHARGE_DURATION]),
              inhibitor_radius |-> None,
              start_system |-> "Sol", start_hex |-> << 0 - 2, 2 >>, start_position |-> Position(0, 0)]
        ELSE [owner |-> 2,
              engines_speed |-> None,
              hyperdrive |-> None,
              inhibitor_radius |-> Some(500 * TicksPerUnit),
              start_system |-> "Sol", start_hex |-> << 1, 1 >>, start_position |-> Position(0, 0)] ]

HasEngines(u) == IsSet(UnitDef[u].engines_speed)
HasHyperdrive(u) == IsSet(UnitDef[u].hyperdrive)
EngineUnits == { u \in Units : HasEngines(u) }
HyperdriveUnits == { u \in Units : HasHyperdrive(u) }
speed(u) == UnitDef[u].engines_speed[1]
jump_range(u) == UnitDef[u].hyperdrive[1].jump_range
RECHARGE_DURATION(u) == UnitDef[u].hyperdrive[1].RECHARGE_DURATION

\* ------------------------------------------------------------------------
\* State
\* ------------------------------------------------------------------------
VARIABLES
    orders,                   \* Order objects still referenced, by order_id
    order_counter,            \* Order.order_counter
    current_order,            \* Commander.current_order, per unit (NoOrder = None)
    orders_queue,             \* Commander.orders_queue, per unit
    in_system, in_hex, position,        \* Unit location
    hex_units,                \* Hex.units, per system and hex
    move_target,              \* Engines.move_target
    hex_jump_target,          \* Hyperdrive.hex_jump_target
    wormhole_jump_target,     \* Hyperdrive.wormhole_jump_target (a wormhole id)
    jump_status,              \* Hyperdrive.jump_status
    recharge_time_remaining,  \* Hyperdrive.recharge_time_remaining
    is_active,                \* HyperspaceInhibitionFieldEmitter.is_active
    dynamic_inhibition_zones, \* Hex.dynamic_inhibition_zones, insertion-ordered
    colony_component,         \* Unit.colony_component: None, or its population_cargo
    bodies,                   \* owner and population of the colonisable bodies
    current_player_index,     \* Game.current_player_index (1-based here)
    pc,                       \* position inside TurnProcessor.process_turn
    system_index,             \* system of the movement loop being processed
    units_to_move,            \* process_turn's units_to_move of that system
    units_to_update,          \* units whose update() is still to run this turn
    at_turn_start,            \* what process_turn found when it began (<< >> between turns)
    orders_issued,            \* number of orders handed to add_order so far
    log,                      \* what the last operation did to orders, in order
    last_op,                  \* the operation that led to this state, and its unit
    jump_path,                \* a call of find_hex_jump_path and the list it returned
    intersystem_path,         \* a call of find_intersystem_path and what it returned
    inhibitor_component,      \* Unit.inhibitor_component: None, or the emitter's radius
    credits,                  \* Player.credits
    constructor_component,    \* Unit.constructor_component: None, or its construction state
    construct_order,          \* the CONSTRUCT order execute() ran last (<< >> before the first)
    created_units             \* number of units create_unit_from_template has added

worldVars == << orders, order_counter, current_order, orders_queue, in_system, in_hex,
                position, hex_units, move_target, hex_jump_target, wormhole_jump_target,
                jump_status, recharge_time_remaining, is_active, dynamic_inhibition_zones,
                colony_component, bodies, log >>
turnVars == << current_player_index, pc, system_index, units_to_move, units_to_update,
              at_turn_start >>
pathVars == << jump_path, intersystem_path >>
constructVars == << credits, constructor_component, construct_order, created_units >>
vars == << worldVars, turnVars, orders_issued, last_op, pathVars, inhibitor_component,
          constructVars >>

HasInhibitor(u) == IsSet(inhibitor_component[u])
InhibitorUnits == { u \in Units : HasInhibitor(u) }
inhibitor_radius(u) == inhibitor_component[u][1]

\* The mutable objects as one value, threaded through the methods below;
\* random_cos is the cosine of the angle random.uniform() returns to this call
World(random_cos) ==
    [orders |-> orders, order_counter |-> order_counter, current_order |-> current_order,
     orders_queue |-> orders_queue, in_system |-> in_system, in_hex |-> in_hex,
     position |-> position, hex_units |-> hex_units, move_target |-> move_target,
     hex_jump_target |-> hex_jump_target, wormhole_jump_target |-> wormhole_jump_target,
     jump_status |-> jump_status, recharge_time_remaining |-> recharge_time_remaining,
     is_active |-> is_active, dynamic_inhibition_zones |-> dynamic_inhibition_zones,
     colony_component |-> colony_component, bodies |-> bodies,
     log |-> << >>, random_cos |-> random_cos]

Install(w) ==
    /\ orders' = w.orders
    /\ order_counter' = w.order_counter
    /\ current_order' = w.current_order
    /\ orders_queue' = w.orders_queue
    /\ in_system' = w.in_system
    /\ in_hex' = w.in_hex
    /\ position' = w.position
    /\ hex_units' = w.hex_units
    /\ move_target' = w.move_target
    /\ hex_jump_target' = w.hex_jump_target
    /\ wormhole_jump_target' = w.wormhole_jump_target
    /\ jump_status' = w.jump_status
    /\ recharge_time_remaining' = w.recharge_time_remaining
    /\ is_active' = w.is_active
    /\ dynamic_inhibition_zones' = w.dynamic_inhibition_zones
    /\ colony_component' = w.colony_component
    /\ bodies' = w.bodies
    /\ log' = w.log

Terminal == { "COMPLETED", "FAILED", "CANCELLED" }

\* index of the first occurrence of x in seq, 0 when it does not occur
IndexOf(seq, x) ==
    IF \E i \in DOMAIN seq : seq[i] = x
    THEN CHOOSE i \in DOMAIN seq : seq[i] = x /\ \A j \in 1..(i - 1) : seq[j] # x
    ELSE 0

\* record in the log that ev happened to the order, with the order's parent,
\* its place in the parent's sub_orders and its status at that moment, and
\* with the order as it is and the place and the targets of its unit
Logged(w, ev, order_id) ==
    LET parent == w.orders[order_id].parent_order
        pos == IF parent = NoOrder THEN 0 ELSE IndexOf(w.orders[parent].sub_orders, order_id)
        u == w.orders[order_id].unit
    IN [w EXCEPT !.log = Append(@, [ev |-> ev, id |-> order_id, parent |-> parent, pos |-> pos,
                                    status |-> w.orders[order_id].status,
                                    order |-> w.orders[order_id],
                                    at |-> << w.in_system[u], w.in_hex[u], w.position[u] >>,
                                    targets |->
                                        << IF HasEngines(u) THEN w.move_target[u] ELSE None,
                                           IF HasHyperdrive(u) THEN w.hex_jump_target[u] ELSE None,
                                           IF HasHyperdrive(u) THEN w.wormhole_jump_target[u]
                                           ELSE None >>])]

\* record that the call at hand has left the order COMPLETED
NoteCompleted(w, order_id) ==
    IF w.orders[order_id].status = "COMPLETED" THEN Logged(w, "completed", order_id) ELSE w

\* Hex.get_all_inhibition_zones: static zones, then the dynamic ones
get_all_inhibition_zones(w, system_name, hex) ==
    static_inhibition_zones(system_name, hex)
    \o [ i \in 1..Len(w.dynamic_inhibition_zones[system_name][hex]) |->
           w.dynamic_inhibition_zones[system_name][hex][i].zone ]

\* the first zone of the list that contains the point (0 when there is none)
FirstZoneWith(zones, point) ==
    IF \E i \in DOMAIN zones : is_point_in_circle(point, zones[i])
    THEN CHOOSE i \in DOMAIN zones :
            /\ is_point_in_circle(point, zones[i])
            /\ \A j \in 1..(i - 1) : ~ is_point_in_circle(point, zones[j])
    ELSE 0

\* ------------------------------------------------------------------------
\* unit_orders.py: Order
\* ------------------------------------------------------------------------
\* Call(method, w, args) is the call of the method of that name with these
\* arguments; it is defined after the methods
RECURSIVE Call(_, _, _)

WaypointParameters(system_name, hex, pos) ==
    [destination_system_name |-> Some(system_name), destination_hex_coord |-> Some(hex),
     destination_position |-> Some(pos), turn_on |-> FALSE]

ToggleParameters(turn_on) ==
    [destination_system_name |-> None, destination_hex_coord |-> None,
     destination_position |-> None, turn_on |-> turn_on]

\* Order.__init__: the new order takes the id Order.order_counter
NewOrder(w, unit, order_type, parameters, parent_order) ==
    [w EXCEPT !.orders = (w.order_counter :>
                            [unit |-> unit, order_type |-> order_type, parameters |-> parameters,
                             status |-> "PENDING", sub_orders |-> << >>,
                             parent_order |-> parent_order]) @@ @,
              !.order_counter = @ + 1]

\* self.add_sub_order(Order(self.unit, order_type, parameters, parent_order=self))
add_sub_order(w, o, order_type, parameters) ==
    LET w1 == NewOrder(w, w.orders[o].unit, order_type, parameters, o)
    IN [w1 EXCEPT !.orders[o].sub_orders = Append(@, w.order_counter)]

SetStatus(w, o, status) == [w EXCEPT !.orders[o].status = status]

\* a move target that is left as it is
KeepMoveTarget(w, u) == w

\* the three assignments "move_target = None", "hex_jump_target = None",
\* "wormhole_jump_target = None", each guarded by the component's presence
ClearMoveTarget(w, u) ==
    IF HasEngines(u) THEN [w EXCEPT !.move_target[u] = None] ELSE w

ClearJumpTargets(w, u) ==
    IF HasHyperdrive(u)
    THEN [w EXCEPT !.hex_jump_target[u] = None, !.wormhole_jump_target[u] = None]
    ELSE w

find_wormhole_to_system(current_system_name, target_system_name) ==
    LET hits == { i \in DOMAIN WormholeIds :
                    /\ Wormholes[WormholeIds[i]].in_system = current_system_name
                    /\ Wormholes[WormholeIds[i]].exit_system_name = target_system_name }
    IN IF hits = {} THEN None
       ELSE Some(WormholeIds[CHOOSE i \in hits : \A j \in hits : i <= j])

handle_inhibited_waypoint(w, o, target_hex, target_pos, is_final_destination, system_name) ==
    IF target_hex \notin Hexes(system_name) THEN w
    ELSE LET zones == get_all_inhibition_zones(w, system_name, target_hex)
             k == FirstZoneWith(zones, target_pos)
         IN IF k = 0
            THEN add_sub_order(w, o, "REACH_WAYPOINT",
                               WaypointParameters(system_name, target_hex, target_pos))
            ELSE LET adjusted_pos == get_closest_point_on_circle_edge(target_pos, zones[k])
                     w1 == add_sub_order(w, o, "REACH_WAYPOINT",
                                         WaypointParameters(system_name, target_hex, adjusted_pos))
                 IN IF is_final_destination
                    THEN add_sub_order(w1, o, "REACH_WAYPOINT",
                                       WaypointParameters(system_name, target_hex, target_pos))
                    ELSE w1

RECURSIVE PlanWaypoints(_, _, _, _, _, _)
\* the "for i, waypoint_hex in enumerate(waypoints)" loop of plan_hex_jump_sequence
PlanWaypoints(w, o, waypoints, i, end_pos, system_name) ==
    IF i > Len(waypoints) THEN w
    ELSE LET is_final == (i = Len(waypoints))
             waypoint_pos == IF is_final THEN end_pos
                             ELSE hex_to_pixel(waypoints[i][1], waypoints[i][2])
         IN PlanWaypoints(Call("handle_inhibited_waypoint", w,
                               << o, waypoints[i], waypoint_pos, is_final, system_name >>),
                          o, waypoints, i + 1, end_pos, system_name)

plan_hex_jump_sequence(w, o, start_hex, end_hex, end_pos, system_name) ==
    LET u == w.orders[o].unit
    IN IF ~ HasHyperdrive(u) THEN SetStatus(w, o, "FAILED")
       ELSE IF hex_distance(start_hex, end_hex) <= jump_range(u)
       THEN Call("handle_inhibited_waypoint", w, << o, end_hex, end_pos, TRUE, system_name >>)
       ELSE PlanWaypoints(w, o, find_hex_jump_path(start_hex, end_hex, jump_range(u)),
                          1, end_pos, system_name)

\* "Check if wormhole exit is inhibited": a waypoint just outside the first
\* zone around the arrival position, at the random angle
PlanExitEscape(w, o, system_name, exit_wh) ==
    LET zones == get_all_inhibition_zones(w, system_name, exit_wh.in_hex)
        k == FirstZoneWith(zones, exit_wh.position)
        safe_distance == zones[k].radius + TicksPerUnit
        safe_pos == Position(exit_wh.position.x + safe_distance * w.random_cos,
                             exit_wh.position.y)
    IN IF k = 0 THEN w
       ELSE add_sub_order(w, o, "REACH_WAYPOINT",
                          WaypointParameters(system_name, exit_wh.in_hex, safe_pos))

\* sub-orders to reach the entry wormhole, to jump through it and to leave
\* the zone around its exit (steps 1.1 to 1.3, and the body of a leg)
PlanWormholeLeg(w, o, from_hex, origin_system, destination_system, wormhole) ==
    LET exit_wh == Wormholes[wormhole.exit_wormhole_id]
        w1 == IF from_hex # wormhole.in_hex
              THEN Call("plan_hex_jump_sequence", w,
                        << o, from_hex, wormhole.in_hex, wormhole.position, origin_system >>)
              ELSE add_sub_order(w, o, "REACH_WAYPOINT",
                                 WaypointParameters(origin_system, wormhole.in_hex,
                                                    wormhole.position))
        w2 == add_sub_order(w1, o, "REACH_WAYPOINT",
                            WaypointParameters(destination_system, exit_wh.in_hex,
                                               exit_wh.position))
    IN PlanExitEscape(w2, o, destination_system, exit_wh)

RECURSIVE PlanLegs(_, _, _, _, _)
\* the "for i in range(len(path_to_destination) - 1)" loop; returns the world,
\* whether the loop returned from plan_route, and current_leg_arrival_hex
PlanLegs(w, o, path, i, current_leg_arrival_hex) ==
    IF i > Len(path) - 1 THEN [w |-> w, returned |-> FALSE, hex |-> current_leg_arrival_hex]
    ELSE LET wormhole_for_leg == find_wormhole_to_system(path[i], path[i + 1])
         IN IF wormhole_for_leg = None
            THEN [w |-> SetStatus(w, o, "FAILED"), returned |-> TRUE,
                  hex |-> current_leg_arrival_hex]
            ELSE LET wormhole == Wormholes[wormhole_for_leg[1]]
                 IN PlanLegs(PlanWormholeLeg(w, o, current_leg_arrival_hex, path[i],
                                             path[i + 1], wormhole),
                             o, path, i + 1, Wormholes[wormhole.exit_wormhole_id].in_hex)

\* planning that starts with the jumps, whatever the current position is
NoStartEscape(w, o, csys, chex, cpos) == w

\* "Pre-planning checks for hyperspace jumps": escape waypoint out of the
\* first zone that holds the current position
PlanStartEscape(w, o, csys, chex, cpos) ==
    LET zones == get_all_inhibition_zones(w, csys, chex)
        k == FirstZoneWith(zones, cpos)
    IN IF k = 0 THEN w
       ELSE add_sub_order(w, o, "REACH_WAYPOINT",
                          WaypointParameters(csys, chex,
                                             get_closest_point_on_circle_edge(cpos, zones[k])))

\* "1.4. Sub-order(s) to move to final destination position"
PlanFromExit(w, o, exit_hex, dsys, dhex, dpos) ==
    IF exit_hex # dhex
    THEN Call("plan_hex_jump_sequence", w, << o, exit_hex, dhex, dpos, dsys >>)
    ELSE w

\* what follows the loop over the legs: nothing when the loop returned
PlanAfterLegs(legs, o, dsys, dhex, dpos) ==
    IF legs.returned THEN legs.w
    ELSE Call("plan_hex_jump_sequence", legs.w, << o, legs.hex, dhex, dpos, dsys >>)

\* "No direct wormhole, try pathfinding"
PlanAlongPath(w, o, path_to_destination, chex, dsys, dhex, dpos) ==
    IF path_to_destination = None \/ Len(path_to_destination[1]) < 2
    THEN SetStatus(w, o, "FAILED")
    ELSE PlanAfterLegs(PlanLegs(w, o, path_to_destination[1], 1, chex), o, dsys, dhex, dpos)

\* "1. Inter-system travel"
PlanInterSystem(w, o, csys, chex, dsys, dhex, dpos) ==
    LET u == w.orders[o].unit
        direct_wormhole == find_wormhole_to_system(csys, dsys)
    IN IF ~ HasHyperdrive(u) THEN SetStatus(w, o, "FAILED")
       ELSE IF direct_wormhole # None
       THEN LET wormhole == Wormholes[direct_wormhole[1]]
            IN PlanFromExit(PlanWormholeLeg(w, o, chex, csys, dsys, wormhole), o,
                            Wormholes[wormhole.exit_wormhole_id].in_hex, dsys, dhex, dpos)
       ELSE PlanAlongPath(w, o, find_intersystem_path(system_graph, csys, dsys),
                          chex, dsys, dhex, dpos)

\* the three kinds of travel plan_route tells apart
PlanTravel(w, o, csys, chex, dsys, dhex, dpos) ==
    IF csys # dsys THEN PlanInterSystem(w, o, csys, chex, dsys, dhex, dpos)
    ELSE IF chex # dhex
    THEN Call("plan_hex_jump_sequence", w, << o, chex, dhex, dpos, csys >>)
    ELSE IF ~ HasEngines(w.orders[o].unit) THEN SetStatus(w, o, "FAILED")
    ELSE add_sub_order(w, o, "REACH_WAYPOINT", WaypointParameters(dsys, dhex, dpos))

plan_route(w, o) ==
    LET u == w.orders[o].unit
        csys == w.in_system[u]
        chex == w.in_hex[u]
        cpos == w.position[u]
        parameters == w.orders[o].parameters
    IN IF \/ parameters.destination_system_name = None
          \/ parameters.destination_hex_coord = None
          \/ parameters.destination_position = None
       THEN SetStatus(w, o, "FAILED")
       ELSE LET dsys == parameters.destination_system_name[1]
                dhex == parameters.destination_hex_coord[1]
                dpos == parameters.destination_position[1]
            IN IF csys = dsys /\ chex = dhex /\ Arrived(cpos, dpos)
               THEN SetStatus(w, o, "COMPLETED")
               ELSE PlanTravel(IF csys # dsys \/ chex # dhex
                               THEN PlanStartEscape(w, o, csys, chex, cpos)
                               ELSE w,
                               o, csys, chex, dsys, dhex, dpos)

_execute_reach_waypoint(w, o) ==
    LET u == w.orders[o].unit
        csys == w.in_system[u]
        chex == w.in_hex[u]
        parameters == w.orders[o].parameters
    IN IF \/ parameters.destination_system_name = None
          \/ parameters.destination_hex_coord = None
          \/ parameters.destination_position = None
       THEN SetStatus(w, o, "FAILED")
       ELSE LET dsys == parameters.destination_system_name[1]
                dhex == parameters.destination_hex_coord[1]
                dpos == parameters.destination_position[1]
            IN IF csys = dsys /\ chex # dhex
               THEN IF ~ HasHyperdrive(u) THEN SetStatus(w, o, "FAILED")
                    ELSE ClearMoveTarget([w EXCEPT !.hex_jump_target[u] = Some(<< dhex, dpos >>),
                                                   !.wormhole_jump_target[u] = None], u)
               ELSE IF csys = dsys /\ chex = dhex
               THEN IF ~ HasEngines(u) THEN SetStatus(w, o, "FAILED")
                    ELSE IF Arrived(w.position[u], dpos)
                    THEN ClearJumpTargets(ClearMoveTarget(SetStatus(w, o, "COMPLETED"), u), u)
                    ELSE ClearJumpTargets([w EXCEPT !.move_target[u] = Some(dpos)], u)
               ELSE IF ~ HasHyperdrive(u) THEN SetStatus(w, o, "FAILED")
                    ELSE LET wormhole == find_wormhole_to_system(csys, dsys)
                         IN IF wormhole = None THEN SetStatus(w, o, "FAILED")
                            ELSE ClearMoveTarget([w EXCEPT !.wormhole_jump_target[u] = wormhole,
                                                           !.hex_jump_target[u] = None], u)

\* current_hex.dynamic_inhibition_zones[unit.id] = zone: a dict keeps the
\* place of a key it already has
SetDynamicZone(zones, u, zone) ==
    IF \E i \in DOMAIN zones : zones[i].unit = u
    THEN [ i \in DOMAIN zones |-> IF zones[i].unit = u THEN [unit |-> u, zone |-> zone]
                                  ELSE zones[i] ]
    ELSE Append(zones, [unit |-> u, zone |-> zone])

\* del current_hex.dynamic_inhibition_zones[unit.id], when the key is there
DelDynamicZone(zones, u) == SelectSeq(zones, LAMBDA e : e.unit # u)

\* the containment test alone, without the loop over the hex's zones
InsideBoundary(w, u) ==
    is_circle_contained(Circle(w.position[u], inhibitor_radius(u)), boundary_circle)

\* the validation both ways of switching the field on share
CanTurnOn(w, u) ==
    LET proposed_field == Circle(w.position[u], inhibitor_radius(u))
        zones == get_all_inhibition_zones(w, w.in_system[u], w.in_hex[u])
    IN /\ is_circle_contained(proposed_field, boundary_circle)
       /\ \A i \in DOMAIN zones : ~ do_circles_intersect(proposed_field, zones[i])

TurnOn(w, u) ==
    [w EXCEPT !.is_active[u] = TRUE,
              !.dynamic_inhibition_zones[w.in_system[u]][w.in_hex[u]] =
                  SetDynamicZone(@, u, Circle(w.position[u], inhibitor_radius(u)))]

TurnOff(w, u) ==
    [w EXCEPT !.is_active[u] = FALSE,
              !.dynamic_inhibition_zones[w.in_system[u]][w.in_hex[u]] = DelDynamicZone(@, u)]

_execute_toggle_inhibitor(w, o) ==
    LET u == w.orders[o].unit
    IN IF ~ HasInhibitor(u) THEN SetStatus(w, o, "FAILED")
       ELSE IF w.orders[o].parameters.turn_on
       THEN IF CanTurnOn(w, u) THEN SetStatus(TurnOn(w, u), o, "COMPLETED")
            ELSE SetStatus(w, o, "FAILED")
       ELSE SetStatus(TurnOff(w, u), o, "COMPLETED")

\* HyperspaceInhibitionFieldEmitter.toggle
toggle(w, u) ==
    IF w.is_active[u] THEN TurnOff(w, u)
    ELSE IF CanTurnOn(w, u) THEN TurnOn(w, u)
    ELSE w

\* "amount_to_load = 25"
LoadAmount == 25

\* parameters of a COLONIZE or LOAD_COLONISTS order
ColonyParameters(target_id, amount) ==
    [destination_system_name |-> None, destination_hex_coord |-> None,
     destination_position |-> None, turn_on |-> FALSE,
     target_id |-> target_id, amount |-> amount]

\* ColonyComponent.load_population: the objects after the call and its result
load_population(w, u, body_id, amount) ==
    IF w.bodies[body_id].owner # Some(UnitDef[u].owner) THEN [w |-> w, success |-> FALSE]
    ELSE IF w.bodies[body_id].population < amount * PopulationScale
    THEN [w |-> w, success |-> FALSE]
    ELSE IF w.colony_component[u][1] + amount > MAX_CARGO THEN [w |-> w, success |-> FALSE]
    ELSE [w |-> [w EXCEPT !.bodies[body_id].population = @ - amount * PopulationScale,
                          !.colony_component[u] = Some(@[1] + amount)],
          success |-> TRUE]

\* ColonyComponent.unload_population
unload_population(w, u, body_id, amount) ==
    IF w.colony_component[u][1] < amount THEN [w |-> w, success |-> FALSE]
    ELSE LET w1 == IF w.bodies[body_id].owner = None
                   THEN [w EXCEPT !.bodies[body_id].owner = Some(UnitDef[u].owner)]
                   ELSE w
         IN IF w1.bodies[body_id].owner # Some(UnitDef[u].owner)
            THEN [w |-> w1, success |-> FALSE]
            ELSE [w |-> [w1 EXCEPT !.bodies[body_id].population = @ + amount * PopulationScale,
                                   !.colony_component[u] = Some(@[1] - amount)],
                  success |-> TRUE]

\* Order.has_active_sub_orders
RECURSIVE has_active_sub_orders(_, _)
has_active_sub_orders(w, o) ==
    \E i \in DOMAIN w.orders[o].sub_orders :
        IF w.orders[w.orders[o].sub_orders[i]].status \in { "IN_PROGRESS", "PENDING" }
        THEN TRUE
        ELSE has_active_sub_orders(w, w.orders[o].sub_orders[i])

\* "at_location": the unit is in the system and the hex of the body
AtLocation(w, u, body_id) ==
    /\ w.in_system[u] = ColonisableBodies[body_id].in_system
    /\ w.in_hex[u] = ColonisableBodies[body_id].in_hex

\* the number of orders above an order in its tree
RECURSIVE Depth(_, _)
Depth(w, o) ==
    IF w.orders[o].parent_order = NoOrder THEN 0
    ELSE 1 + Depth(w, w.orders[o].parent_order)

\* nested update() calls after which the interpreter raises RecursionError
\* (sys.getrecursionlimit() frames in Python)
MaxNesting == 3

\* the two sub-orders a COLONIZE or LOAD_COLONISTS order away from its
\* body gives itself: a MOVE to the body, then an order of its own type;
\* update() calls itself once per level of the tree, so that a tree too deep
\* ends the call with RecursionError
PlanTransfer(w, o, body_id, parameters) ==
    IF has_active_sub_orders(w, o) THEN w
    ELSE IF Depth(w, o) >= MaxNesting THEN Logged(w, "RecursionError", o)
    ELSE add_sub_order(add_sub_order(w, o, "MOVE",
                                     WaypointParameters(ColonisableBodies[body_id].in_system,
                                                        ColonisableBodies[body_id].in_hex,
                                                        ColonisableBodies[body_id].position)),
                       o, w.orders[o].order_type, parameters)

_execute_colonize(w, o) ==
    LET u == w.orders[o].unit
        parameters == w.orders[o].parameters
        target == get_celestial_body_by_id(parameters.target_id)
    IN IF parameters.target_id = 0 THEN SetStatus(w, o, "FAILED")
       ELSE IF target = None THEN SetStatus(w, o, "FAILED")
       ELSE IF w.colony_component[u] = None THEN SetStatus(w, o, "FAILED")
       ELSE IF ~ AtLocation(w, u, target[1]) THEN PlanTransfer(w, o, target[1], parameters)
       ELSE IF w.colony_component[u][1] <= 0 THEN SetStatus(w, o, "FAILED")
       ELSE LET done == unload_population(w, u, target[1], w.colony_component[u][1])
            IN SetStatus(done.w, o, IF done.success THEN "COMPLETED" ELSE "FAILED")

_execute_load_colonists(w, o) ==
    LET u == w.orders[o].unit
        parameters == w.orders[o].parameters
        target == get_celestial_body_by_id(parameters.target_id)
    IN IF parameters.target_id = 0 THEN SetStatus(w, o, "FAILED")
       ELSE IF target = None THEN SetStatus(w, o, "FAILED")
       ELSE IF w.colony_component[u] = None THEN SetStatus(w, o, "FAILED")
       ELSE IF ~ AtLocation(w, u, target[1])
       THEN PlanTransfer(w, o, target[1], ColonyParameters(target[1], parameters.amount))
       ELSE LET done == load_population(w, u, target[1], parameters.amount)
            IN SetStatus(done.w, o, IF done.success THEN "COMPLETED" ELSE "FAILED")

\* the "if self.order_type == ..." chain of execute
Dispatch(w, o) ==
    IF w.orders[o].order_type = "MOVE" THEN plan_route(w, o)
    ELSE IF w.orders[o].order_type = "REACH_WAYPOINT" THEN _execute_reach_waypoint(w, o)
    ELSE IF w.orders[o].order_type = "TOGGLE_INHIBITOR" THEN _execute_toggle_inhibitor(w, o)
    ELSE IF w.orders[o].order_type = "COLONIZE" THEN _execute_colonize(w, o)
    ELSE IF w.orders[o].order_type = "LOAD_COLONISTS" THEN _execute_load_colonists(w, o)
    ELSE w

execute(w, o) ==
    IF w.orders[o].status # "PENDING" THEN w
    ELSE NoteCompleted(Dispatch(Logged(SetStatus(w, o, "IN_PROGRESS"), "execute", o), o), o)

\* an arrival test that is content with the right hex
InDestinationHex(w, o) ==
    LET u == w.orders[o].unit
        parameters == w.orders[o].parameters
    IN /\ Some(w.in_system[u]) = parameters.destination_system_name
       /\ Some(w.in_hex[u]) = parameters.destination_hex_coord

AtDestination(w, o) ==
    LET u == w.orders[o].unit
        parameters == w.orders[o].parameters
    IN /\ Some(w.in_system[u]) = parameters.destination_system_name
       /\ Some(w.in_hex[u]) = parameters.destination_hex_coord
       /\ parameters.destination_position # None
       /\ Arrived(w.position[u], parameters.destination_position[1])

check_completion_conditions(w, o) ==
    LET u == w.orders[o].unit
    IN IF w.orders[o].status # "IN_PROGRESS" THEN w
       ELSE IF w.orders[o].order_type = "MOVE"
       THEN IF w.orders[o].sub_orders = << >> /\ AtDestination(w, o)
            THEN SetStatus(w, o, "COMPLETED") ELSE w
       ELSE IF w.orders[o].order_type = "REACH_WAYPOINT"
       THEN IF AtDestination(w, o)
            THEN SetStatus(ClearJumpTargets(ClearMoveTarget(w, u), u), o, "COMPLETED")
            ELSE w
       ELSE IF w.orders[o].order_type = "COLONIZE"
       THEN IF /\ get_celestial_body_by_id(w.orders[o].parameters.target_id) # None
               /\ w.bodies[w.orders[o].parameters.target_id].owner = Some(UnitDef[u].owner)
            THEN SetStatus(w, o, "COMPLETED") ELSE w
       ELSE IF w.orders[o].order_type = "LOAD_COLONISTS"
       THEN IF w.orders[o].sub_orders = << >> THEN SetStatus(w, o, "COMPLETED") ELSE w
       ELSE w

RECURSIVE ProcessSubOrders(_, _)
\* "if current_sub_order.status == OrderStatus.PENDING: current_sub_order.execute()"
ExecuteIfPending(w, o) ==
    IF w.orders[o].status = "PENDING" THEN Call("execute", w, << o >>) ELSE w

\* "if ....status == OrderStatus.IN_PROGRESS: ....update()"
UpdateIfInProgress(w, o) ==
    IF w.orders[o].status = "IN_PROGRESS" THEN Call("update", w, << o >>) ELSE w

\* a loop body that pops the head and goes on whatever the head's status is
PopRegardless(w, o, current_sub_order) ==
    ProcessSubOrders([Logged(w, "pop", current_sub_order)
                         EXCEPT !.orders[o].sub_orders = Tail(@)], o)

\* the end of the loop body: pop a finished head and go on, or return
PopOrReturn(w, o, current_sub_order) ==
    IF w.orders[current_sub_order].status \in Terminal
    THEN ProcessSubOrders([Logged(w, "pop", current_sub_order)
                              EXCEPT !.orders[o].sub_orders = Tail(@)], o)
    ELSE Logged(w, "blocked", current_sub_order)

\* the "while self.sub_orders" loop of Order.update and what follows it
ProcessSubOrders(w, o) ==
    IF w.orders[o].sub_orders = << >>
    THEN IF w.orders[o].status = "IN_PROGRESS"
         THEN NoteCompleted(check_completion_conditions(Logged(w, "check", o), o), o)
         ELSE w
    ELSE PopOrReturn(UpdateIfInProgress(ExecuteIfPending(w, Head(w.orders[o].sub_orders)),
                                        Head(w.orders[o].sub_orders)),
                     o, Head(w.orders[o].sub_orders))

update(w, o) == ProcessSubOrders(Logged(w, "update", o), o)

RECURSIVE cancel(_, _)
RECURSIVE CancelAll(_, _)
\* cancel() of every order of the sequence, in order
CancelAll(w, order_ids) ==
    IF order_ids = << >> THEN w
    ELSE CancelAll(cancel(w, Head(order_ids)), Tail(order_ids))

\* a cancel() that leaves the sub-orders as they are
CancelAlone(w, o) == Logged(SetStatus(w, o, "CANCELLED"), "cancel", o)

cancel(w, o) ==
    CancelAll(Logged(SetStatus(w, o, "CANCELLED"), "cancel", o), w.orders[o].sub_orders)

RECURSIVE is_completed(_, _)
is_completed(w, o) ==
    /\ w.orders[o].status = "COMPLETED"
    /\ \A i \in DOMAIN w.orders[o].sub_orders : is_completed(w, w.orders[o].sub_orders[i])

\* ------------------------------------------------------------------------
\* unit_components.py: Commander, Hyperdrive; entities.py: Unit.update
\* ------------------------------------------------------------------------
start_next_order(w, u) ==
    IF w.current_order[u] = NoOrder /\ w.orders_queue[u] # << >>
    THEN UpdateIfInProgress(Call("execute",
                                 [w EXCEPT !.current_order[u] = Head(w.orders_queue[u]),
                                           !.orders_queue[u] = Tail(@)],
                                 << Head(w.orders_queue[u]) >>),
                            Head(w.orders_queue[u]))
    ELSE w

\* an add_order that starts the order it is given whether or not another
\* order is current
AddAndStart(w, u, o) ==
    UpdateIfInProgress(Call("execute", [w EXCEPT !.orders_queue[u] = Append(@, o)], << o >>), o)

add_order(w, u, o) ==
    IF w.current_order[u] = NoOrder
    THEN start_next_order([w EXCEPT !.orders_queue[u] = Append(@, o)], u)
    ELSE [w EXCEPT !.orders_queue[u] = Append(@, o)]

cancel_order(w, u, order_id) ==
    IF w.current_order[u] # NoOrder /\ w.current_order[u] = order_id
    THEN start_next_order([cancel(w, order_id) EXCEPT !.current_order[u] = NoOrder], u)
    ELSE IF \E i \in DOMAIN w.orders_queue[u] : w.orders_queue[u][i] = order_id
    THEN [cancel(w, order_id) EXCEPT
            !.orders_queue[u] = SelectSeq(@, LAMBDA q : q # order_id)]
    ELSE w

\* a clear_orders that leaves the backlog alone
KeepQueue(w, u) == w

\* "for order in self.orders_queue: order.cancel()" and "self.orders_queue.clear()"
CancelQueue(w, u) == [CancelAll(w, w.orders_queue[u]) EXCEPT !.orders_queue[u] = << >>]

clear_orders(w, u) ==
    ClearJumpTargets(
        ClearMoveTarget(
            CancelQueue(IF w.current_order[u] # NoOrder
                        THEN [cancel(w, w.current_order[u]) EXCEPT !.current_order[u] = NoOrder]
                        ELSE w, u), u), u)

\* an end of Commander.update that makes room whatever the order's status
DiscardAlways(w, u, o) ==
    start_next_order([Logged(w, "discard", o) EXCEPT !.current_order[u] = NoOrder], u)

\* the end of Commander.update: a finished current order makes room
DiscardIfFinished(w, u, o) ==
    LET order_is_finished ==
            \/ is_completed(w, o)
            \/ w.orders[o].status \in { "FAILED", "CANCELLED" }
    IN IF order_is_finished
       THEN start_next_order([Logged(w, "discard", o) EXCEPT !.current_order[u] = NoOrder], u)
       ELSE w

\* Commander.update from "if not self.current_order: return" on
UpdateCurrentOrder(w, u) ==
    IF w.current_order[u] = NoOrder THEN w
    ELSE DiscardIfFinished(Call("update", w, << w.current_order[u] >>), u, w.current_order[u])

Commander_update(w, u) ==
    UpdateCurrentOrder(IF w.current_order[u] = NoOrder THEN start_next_order(w, u) ELSE w, u)

\* the end of a jump that clears the targets and leaves the drive as it is
ClearTargetsOnly(w, u) ==
    [w EXCEPT !.hex_jump_target[u] = None, !.wormhole_jump_target[u] = None]

\* Hyperdrive.start_recharge
start_recharge(w, u) ==
    [w EXCEPT !.jump_status[u] = "CHARGING",
              !.recharge_time_remaining[u] = RECHARGE_DURATION(u),
              !.hex_jump_target[u] = None,
              !.wormhole_jump_target[u] = None]

\* a recharge tick that also puts a drive in ERROR back to READY
RecoverOnTick(w, u) ==
    IF w.jump_status[u] = "ERROR" THEN [w EXCEPT !.jump_status[u] = "READY"]
    ELSE IF w.jump_status[u] = "CHARGING" /\ w.recharge_time_remaining[u] > 0
    THEN IF w.recharge_time_remaining[u] - 1 <= 0
         THEN [w EXCEPT !.recharge_time_remaining[u] = 0, !.jump_status[u] = "READY"]
         ELSE [w EXCEPT !.recharge_time_remaining[u] = @ - 1]
    ELSE w

\* a recharge tick that makes the drive READY one turn early
ReadyOneEarly(w, u) ==
    IF w.jump_status[u] = "CHARGING" /\ w.recharge_time_remaining[u] > 0
    THEN IF w.recharge_time_remaining[u] - 1 <= 1
         THEN [w EXCEPT !.recharge_time_remaining[u] = 0, !.jump_status[u] = "READY"]
         ELSE [w EXCEPT !.recharge_time_remaining[u] = @ - 1]
    ELSE w

\* a recharge that never ends
NeverRecharged(w, u) == w

\* Hyperdrive.update_recharge
update_recharge(w, u) ==
    IF w.jump_status[u] = "CHARGING" /\ w.recharge_time_remaining[u] > 0
    THEN IF w.recharge_time_remaining[u] - 1 <= 0
         THEN [w EXCEPT !.recharge_time_remaining[u] = 0, !.jump_status[u] = "READY"]
         ELSE [w EXCEPT !.recharge_time_remaining[u] = @ - 1]
    ELSE w

\* Unit.update
Unit_update(w, u) ==
    Commander_update(IF HasHyperdrive(u) THEN update_recharge(w, u) ELSE w, u)

\* The orders some commander still holds, directly or as sub-orders: the
\* others are unreachable objects
RECURSIVE Referenced(_, _)
Referenced(w, ids) ==
    LET more == ids \cup UNION { { w.orders[o].sub_orders[i] : i \in DOMAIN w.orders[o].sub_orders }
                                 : o \in ids }
    IN IF more = ids THEN ids ELSE Referenced(w, more)

Held(w) ==
    Referenced(w, UNION { ({ w.current_order[u] } \ { NoOrder })
                          \cup { w.orders_queue[u][i] : i \in DOMAIN w.orders_queue[u] }
                          : u \in DOMAIN w.current_order })

Collected(w) == [w EXCEPT !.orders = [ id \in Held(w) |-> w.orders[id] ]]

\* ------------------------------------------------------------------------
\* galaxy.py: units of a system, moving units
\* ------------------------------------------------------------------------
RECURSIVE SortHexes(_)
\* the keys of StarSystem.hexes in the order generate_grid inserted them
SortHexes(hexes) ==
    IF hexes = {} THEN << >>
    ELSE LET first == CHOOSE h \in hexes :
                        \A g \in hexes : h[1] < g[1] \/ (h[1] = g[1] /\ h[2] <= g[2])
         IN << first >> \o SortHexes(hexes \ { first })

HexOrder == [ s \in SystemNames |-> SortHexes(Hexes(s)) ]

RECURSIVE UnitsFrom(_, _, _)
UnitsFrom(w, system_name, i) ==
    IF i > Len(HexOrder[system_name]) THEN << >>
    ELSE w.hex_units[system_name][HexOrder[system_name][i]] \o UnitsFrom(w, system_name, i + 1)

\* StarSystem.get_all_units (the units; each one's hex is its in_hex)
get_all_units(w, system_name) == UnitsFrom(w, system_name, 1)

\* StarSystem.remove_unit, the assignments of the caller, StarSystem.add_unit
Relocate(w, u, destination_system_name, destination_hex) ==
    LET w1 == [w EXCEPT !.hex_units[w.in_system[u]][w.in_hex[u]] =
                            SelectSeq(@, LAMBDA v : v # u)]
    IN [w1 EXCEPT !.in_system[u] = destination_system_name,
                  !.in_hex[u] = destination_hex,
                  !.hex_units[destination_system_name][destination_hex] = Append(@, u)]

InItsHex(w, u) ==
    /\ w.in_hex[u] \in Hexes(w.in_system[u])
    /\ \E i \in DOMAIN w.hex_units[w.in_system[u]][w.in_hex[u]] :
          w.hex_units[w.in_system[u]][w.in_hex[u]][i] = u

\* StarSystem.move_unit_between_hexes: the world and the value returned
move_unit_between_hexes(w, u, destination_hex) ==
    IF \/ w.in_hex[u] = destination_hex
       \/ destination_hex \notin Hexes(w.in_system[u])
       \/ ~ InItsHex(w, u)
    THEN [w |-> w, moved |-> FALSE]
    ELSE [w |-> Relocate(w, u, w.in_system[u], destination_hex), moved |-> TRUE]

\* Galaxy.move_unit_between_systems
move_unit_between_systems(w, u, origin_system_name, destination_system_name, destination_hex) ==
    IF \/ destination_hex \notin Hexes(destination_system_name)
       \/ ~ InItsHex(w, u)
    THEN [w |-> w, moved |-> FALSE]
    ELSE [w |-> Relocate(w, u, destination_system_name, destination_hex), moved |-> TRUE]

\* ------------------------------------------------------------------------
\* turn_processor.py: TurnProcessor.process_turn, one step at a time
\* ------------------------------------------------------------------------
current_player == Players[current_player_index]

NoUnit == 0
Op(name, u) == [op |-> name, unit |-> u]

Movement(u, movement_type, system_name, target) ==
    [unit |-> u, movement_type |-> movement_type, system_name |-> system_name,
     target |-> target]

\* a sub-light step that runs the unit's update() before it moves the unit
UpdateThenStep(w, u) ==
    LET w1 == Call("Unit_update", w, << u >>)
    IN IF w1.move_target[u] = None THEN w1
       ELSE [w1 EXCEPT !.position[u] =
                move_towards_position(w1.position[u], w1.move_target[u][1], speed(u))]

\* two sub-light steps in one turn
SublightTwice(w, u) ==
    LET target_pos_in_sector == w.move_target[u][1]
        new_position ==
            move_towards_position(
                move_towards_position(w.position[u], target_pos_in_sector, speed(u)),
                target_pos_in_sector, speed(u))
    IN IF Arrived(new_position, target_pos_in_sector)
       THEN [w EXCEPT !.position[u] = target_pos_in_sector, !.move_target[u] = None]
       ELSE [w EXCEPT !.position[u] = new_position]

\* the sub-light branch of the first loop over a system's units
SublightStep(w, u) ==
    LET target_pos_in_sector == w.move_target[u][1]
        new_position == move_towards_position(w.position[u], target_pos_in_sector, speed(u))
        w1 == [w EXCEPT !.position[u] = new_position]
        w2 == IF HasInhibitor(u) /\ w1.is_active[u]
              THEN [w1 EXCEPT !.dynamic_inhibition_zones[w1.in_system[u]][w1.in_hex[u]] =
                        SetDynamicZone(@, u, Circle(new_position, inhibitor_radius(u)))]
              ELSE w1
    IN IF Arrived(new_position, target_pos_in_sector)
       THEN [w2 EXCEPT !.position[u] = target_pos_in_sector, !.move_target[u] = None]
       ELSE w2

RECURSIVE MovementLoop(_, _, _, _, _)
\* "for unit, current_hex in all_units_in_system": returns the world and units_to_move
MovementLoop(w, system_name, all_units_in_system, player, queue) ==
    IF all_units_in_system = << >> THEN [w |-> w, units_to_move |-> queue]
    ELSE LET u == Head(all_units_in_system)
             rest == Tail(all_units_in_system)
         IN IF UnitDef[u].owner # player
            THEN MovementLoop(w, system_name, rest, player, queue)
            ELSE IF HasHyperdrive(u) /\ w.wormhole_jump_target[u] # None
            THEN LET target_wormhole_obj == Wormholes[w.wormhole_jump_target[u][1]]
                 IN MovementLoop(w, system_name, rest, player,
                        IF target_wormhole_obj.exit_system_name \in SystemNames
                        THEN Append(queue, Movement(u, "system_jump",
                                                    target_wormhole_obj.exit_system_name, None))
                        ELSE queue)
            ELSE IF HasHyperdrive(u) /\ w.hex_jump_target[u] # None
            THEN LET target_hex_for_jump == w.hex_jump_target[u][1][1]
                 IN MovementLoop(w, system_name, rest, player,
                        IF /\ target_hex_for_jump # w.in_hex[u]
                           /\ target_hex_for_jump \in Hexes(system_name)
                        THEN Append(queue, Movement(u, "hex_jump", system_name,
                                                    w.hex_jump_target[u]))
                        ELSE queue)
            ELSE IF HasEngines(u) /\ w.move_target[u] # None
            THEN MovementLoop(SublightStep(w, u), system_name, rest, player, queue)
            ELSE MovementLoop(w, system_name, rest, player, queue)

\* the validations of a system jump, made while the drive is JUMPING
ExecuteSystemJump(w, u, target_sys_name) ==
    LET origin_system_name == w.in_system[u]
    IN IF w.wormhole_jump_target[u] = None
       THEN [w EXCEPT !.jump_status[u] = "ERROR"]
       ELSE LET entry_wormhole == Wormholes[w.wormhole_jump_target[u][1]]
                exit_wh_id == entry_wormhole.exit_wormhole_id
            IN IF \/ target_sys_name \notin SystemNames
                  \/ exit_wh_id \notin DOMAIN Wormholes
                  \/ Wormholes[exit_wh_id].in_system # target_sys_name
               THEN [w EXCEPT !.jump_status[u] = "ERROR", !.wormhole_jump_target[u] = None]
               ELSE LET exit_wormhole == Wormholes[exit_wh_id]
                        r == move_unit_between_systems(
                                 [w EXCEPT !.position[u] = exit_wormhole.position], u,
                                 origin_system_name, target_sys_name, exit_wormhole.in_hex)
                    IN IF r.moved THEN start_recharge(r.w, u)
                       ELSE [r.w EXCEPT !.jump_status[u] = "ERROR",
                                        !.wormhole_jump_target[u] = None]

IsInhibited(w, system_name, hex, point) ==
    FirstZoneWith(get_all_inhibition_zones(w, system_name, hex), point) # 0

\* a hex jump made without any validation
JumpUnchecked(w, u, movement_data) ==
    LET r == move_unit_between_hexes([w EXCEPT !.position[u] = movement_data[1][2]], u,
                                     movement_data[1][1])
    IN IF r.moved THEN start_recharge(r.w, u)
       ELSE [r.w EXCEPT !.jump_status[u] = "ERROR", !.hex_jump_target[u] = None]

\* a hex jump that takes the target position before its validations
PositionFirst(w, u, movement_data) ==
    LET w1 == [w EXCEPT !.position[u] = movement_data[1][2]]
        r == move_unit_between_hexes(w1, u, movement_data[1][1])
    IN IF /\ w.hex_jump_target[u] # None
          /\ hex_distance(w.in_hex[u], movement_data[1][1]) <= jump_range(u)
          /\ ~ IsInhibited(w, w.in_system[u], w.in_hex[u], w.position[u])
          /\ ~ IsInhibited(w, w.in_system[u], movement_data[1][1], movement_data[1][2])
          /\ r.moved
       THEN start_recharge(r.w, u)
       ELSE [w1 EXCEPT !.jump_status[u] = "ERROR", !.hex_jump_target[u] = None]

\* the validations of a hex jump, made while the drive is JUMPING
ExecuteHexJump(w, u, movement_data) ==
    LET origin_system_name == w.in_system[u]
        target_hex == movement_data[1][1]
        target_pos == movement_data[1][2]
    IN IF w.hex_jump_target[u] = None
       THEN [w EXCEPT !.jump_status[u] = "ERROR"]
       ELSE IF \/ target_hex \notin Hexes(origin_system_name)
               \/ hex_distance(w.in_hex[u], target_hex) > jump_range(u)
               \/ IsInhibited(w, origin_system_name, w.in_hex[u], w.position[u])
               \/ IsInhibited(w, origin_system_name, target_hex, target_pos)
       THEN [w EXCEPT !.jump_status[u] = "ERROR", !.hex_jump_target[u] = None]
       ELSE LET r == move_unit_between_hexes([w EXCEPT !.position[u] = target_pos], u,
                                             target_hex)
            IN IF r.moved THEN start_recharge(r.w, u)
               ELSE [r.w EXCEPT !.jump_status[u] = "ERROR", !.hex_jump_target[u] = None]

\* a jump that goes ahead although the drive is charging
NotDelayed(w, u) == FALSE

\* "if hd_comp.jump_status == JumpStatus.CHARGING: ... continue"
Delayed(w, u) == w.jump_status[u] = "CHARGING"

RECURSIVE EveryUnit(_, _, _)
\* the units of all players, in the order phase 4 meets them
EveryUnit(w, i, player) ==
    IF i > Len(Systems) THEN << >>
    ELSE get_all_units(w, Systems[i]) \o EveryUnit(w, i + 1, player)

RECURSIVE OwnedUnits(_, _, _)
\* the units phase 4 updates, in the order it meets them
OwnedUnits(w, i, player) ==
    IF i > Len(Systems) THEN << >>
    ELSE SelectSeq(get_all_units(w, Systems[i]), LAMBDA u : UnitDef[u].owner = player)
         \o OwnedUnits(w, i + 1, player)

\* end_turn calls process_turn
ProcessTurnBegin ==
    /\ last_op' = Op("ProcessTurnBegin", NoUnit)
    /\ UNCHANGED << pathVars, inhibitor_component, constructVars >>
    /\ pc = "idle"
    /\ pc' = "movement"
    /\ system_index' = 1
    /\ units_to_move' = << >>
    /\ units_to_update' = << >>
    /\ at_turn_start' = [orders |-> orders, in_system |-> in_system, in_hex |-> in_hex,
                          position |-> position, hex_jump_target |-> hex_jump_target,
                          wormhole_jump_target |-> wormhole_jump_target,
                          jump_status |-> jump_status,
                          recharge_time_remaining |-> recharge_time_remaining,
                          dynamic_inhibition_zones |-> dynamic_inhibition_zones]
    /\ Install(World(1))
    /\ UNCHANGED << current_player_index, orders_issued >>

\* the first loop over the units of the system at hand
MoveSystem ==
    /\ last_op' = Op("MoveSystem", NoUnit)
    /\ UNCHANGED << pathVars, inhibitor_component, constructVars >>
    /\ pc = "movement"
    /\ LET system_name == Systems[system_index]
           r == MovementLoop(World(1), system_name, get_all_units(World(1), system_name),
                             current_player, << >>)
       IN /\ Install(r.w)
          /\ units_to_move' = r.units_to_move
    /\ pc' = "jumps"
    /\ UNCHANGED << current_player_index, system_index, units_to_update, at_turn_start,
                    orders_issued >>

\* the head of "for unit, movement_details in units_to_move", up to the point
\* where the drive is JUMPING
JumpBegin ==
    /\ pc = "jumps"
    /\ units_to_move # << >>
    /\ last_op' = Op("JumpBegin", Head(units_to_move).unit)
    /\ UNCHANGED << pathVars, inhibitor_component, constructVars >>
    /\ LET u == Head(units_to_move).unit
           w == World(1)
       IN IF Delayed(w, u) \/ jump_status[u] = "ERROR"
          THEN /\ Install(w)
               /\ units_to_move' = Tail(units_to_move)
               /\ pc' = "jumps"
          ELSE /\ Install([w EXCEPT !.jump_status[u] = "JUMPING"])
               /\ units_to_move' = units_to_move
               /\ pc' = "jumping"
    /\ UNCHANGED << current_player_index, system_index, units_to_update, at_turn_start,
                    orders_issued >>

\* the validations and the jump itself
JumpExecute ==
    /\ pc = "jumping"
    /\ last_op' = Op("JumpExecute", Head(units_to_move).unit)
    /\ UNCHANGED << pathVars, inhibitor_component, constructVars >>
    /\ LET m == Head(units_to_move)
           w == World(1)
       IN Install(IF m.movement_type = "system_jump"
                  THEN ExecuteSystemJump(w, m.unit, m.system_name)
                  ELSE ExecuteHexJump(w, m.unit, m.target))
    /\ units_to_move' = Tail(units_to_move)
    /\ pc' = "jumps"
    /\ UNCHANGED << current_player_index, system_index, units_to_update, at_turn_start,
                    orders_issued >>

\* Planet.update_population, Moon.update_population, Asteroid.update_population
update_population(body_id, body) ==
    IF body.owner # None /\ body.population < ColonisableBodies[body_id].max_population
    THEN [body EXCEPT !.population =
              Min(@ + (@ * ColonisableBodies[body_id].population_growth_percent) \div 100,
                  ColonisableBodies[body_id].max_population)]
    ELSE body

\* phase 2 of process_turn: every colonisable body grows
PopulationGrowth(w) ==
    [w EXCEPT !.bodies = [ id \in DOMAIN w.bodies |-> update_population(id, w.bodies[id]) ]]

\* phase 3 of process_turn: "body.population * TAX_RATE" summed over the
\* bodies of the player, in whole credits
RECURSIVE TaxesOf(_, _, _)
TaxesOf(w, player, ids) ==
    IF ids = {} THEN 0
    ELSE LET id == CHOOSE x \in ids : TRUE
         IN (IF w.bodies[id].owner = Some(player)
             THEN (w.bodies[id].population * TAX_PERCENT) \div (100 * PopulationScale)
             ELSE 0) + TaxesOf(w, player, ids \ { id })

\* the next system of the movement loop, or phases 2 and 3 and the start of
\* phase 4 after the last one
NextSystem ==
    /\ last_op' = Op("NextSystem", NoUnit)
    /\ UNCHANGED << pathVars, inhibitor_component, constructor_component, construct_order,
                    created_units >>
    /\ pc = "jumps"
    /\ units_to_move = << >>
    /\ IF system_index < Len(Systems)
       THEN /\ system_index' = system_index + 1
            /\ pc' = "movement"
            /\ units_to_update' = units_to_update
            /\ credits' = credits
            /\ Install(World(1))
       ELSE /\ system_index' = system_index
            /\ pc' = "updates"
            /\ units_to_update' = OwnedUnits(World(1), 1, current_player)
            /\ credits[current_player]
                  + TaxesOf(PopulationGrowth(World(1)), current_player, DOMAIN bodies)
                  <= MaxCredits
            /\ credits' = [credits EXCEPT ![current_player] =
                              @ + TaxesOf(PopulationGrowth(World(1)), current_player,
                                          DOMAIN bodies)]
            /\ Install(PopulationGrowth(World(1)))
    /\ UNCHANGED << current_player_index, units_to_move, at_turn_start, orders_issued >>

\* "if unit.owner == current_player: unit.update()"
UnitUpdate ==
    /\ pc = "updates"
    /\ units_to_update # << >>
    /\ last_op' = Op("UnitUpdate", Head(units_to_update))
    /\ UNCHANGED << pathVars, inhibitor_component, constructVars >>
    /\ \E random_cos \in { 1, 0 - 1 } :
          Install(Collected(Call("Unit_update", World(random_cos), << Head(units_to_update) >>)))
    /\ units_to_update' = Tail(units_to_update)
    /\ UNCHANGED << current_player_index, pc, system_index, units_to_move, at_turn_start,
                    orders_issued >>

\* process_turn returns and end_turn passes the turn on
EndTurn ==
    /\ last_op' = Op("EndTurn", NoUnit)
    /\ UNCHANGED << pathVars, inhibitor_component, constructVars >>
    /\ pc = "updates"
    /\ units_to_update = << >>
    /\ current_player_index' = (current_player_index % Len(Players)) + 1
    /\ pc' = "idle"
    /\ at_turn_start' = << >>
    /\ Install(World(1))
    /\ UNCHANGED << system_index, units_to_move, units_to_update, orders_issued >>

\* ------------------------------------------------------------------------
\* What the players do between turns (input_processor.py, gui.py) and the
\* calls the Commander accepts
\* ------------------------------------------------------------------------
\* destinations a MOVE is issued to: the station's hex, the far end of the
\* wormhole, and a point of the ship's first hex
MoveDestinations ==
    { WaypointParameters("Sol", << 1, 1 >>, Position(0, 0)),
      WaypointParameters("Alpha", << 0 - 2, 0 >>, Position(0, 0)),
      WaypointParameters("Sol", << 0 - 2, 2 >>, Position(300 * TicksPerUnit, 0)) }

\* destinations of a REACH_WAYPOINT handed to add_order directly: a hex the
\* system does not have, and a hex further away than the jump range
WaypointDestinations ==
    { WaypointParameters("Sol", << SystemRadius + 1, 0 >>, Position(0, 0)),
      WaypointParameters("Sol", << 2, 0 - 2 >>, Position(0, 0)) }

\* Order(...) and commander_component.add_order(order)
AddNewOrder(w, u, order_type, parameters) ==
    add_order(NewOrder(w, u, order_type, parameters, NoOrder), u, w.order_counter)

IssueOrder(w, u, order_type, parameters, shift_pressed) ==
    AddNewOrder(IF shift_pressed THEN w ELSE clear_orders(w, u), u, order_type, parameters)

Call(method, w, args) ==
    CASE method = "handle_inhibited_waypoint" ->
            handle_inhibited_waypoint(w, args[1], args[2], args[3], args[4], args[5])
      [] method = "plan_hex_jump_sequence" ->
            plan_hex_jump_sequence(w, args[1], args[2], args[3], args[4], args[5])
      [] method = "execute" -> execute(w, args[1])
      [] method = "update" -> update(w, args[1])
      [] method = "cancel_order" -> cancel_order(w, args[1], args[2])
      [] method = "Unit_update" -> Unit_update(w, args[1])
      [] method = "IssueOrder" -> IssueOrder(w, args[1], args[2], args[3], args[4])

\* "issue_move_order", "jump_interhex", "jump_wormhole" of the context menu
IssueMove(u, parameters, shift_pressed) ==
    /\ pc = "idle"
    /\ orders_issued < MaxOrdersIssued
    /\ UnitDef[u].owner = current_player
    /\ HasEngines(u) /\ HasHyperdrive(u)
    /\ \E random_cos \in { 1, 0 - 1 } :
          Install(Collected(Call("IssueOrder", World(random_cos),
                                 << u, "MOVE", parameters, shift_pressed >>)))
    /\ orders_issued' = orders_issued + 1
    /\ last_op' = Op("add_order", u)
    /\ UNCHANGED << pathVars, inhibitor_component, constructVars >>
    /\ UNCHANGED turnVars

\* Commander.add_order with a REACH_WAYPOINT order of its own
AddWaypointOrder(u, parameters) ==
    /\ pc = "idle"
    /\ orders_issued < MaxOrdersIssued
    /\ UnitDef[u].owner = current_player
    /\ Install(Collected(Call("IssueOrder", World(1),
                               << u, "REACH_WAYPOINT", parameters, TRUE >>)))
    /\ orders_issued' = orders_issued + 1
    /\ last_op' = Op("add_order", u)
    /\ UNCHANGED << pathVars, inhibitor_component, constructVars >>
    /\ UNCHANGED turnVars

\* Commander.add_order with a MOVE order for a unit the context menu offers
\* no move to, having neither engines nor a hyperdrive
AddMoveOrder(u, parameters) ==
    /\ pc = "idle"
    /\ orders_issued < MaxOrdersIssued
    /\ UnitDef[u].owner = current_player
    /\ ~ HasEngines(u) /\ ~ HasHyperdrive(u)
    /\ Install(Collected(Call("IssueOrder", World(1), << u, "MOVE", parameters, TRUE >>)))
    /\ orders_issued' = orders_issued + 1
    /\ last_op' = Op("add_order", u)
    /\ UNCHANGED << pathVars, inhibitor_component, constructVars >>
    /\ UNCHANGED turnVars

\* "colonize" and "load_colonists" of the context menu of a body
IssueColony(u, order_type, target_id, shift_pressed) ==
    /\ pc = "idle"
    /\ orders_issued < MaxOrdersIssued
    /\ UnitDef[u].owner = current_player
    /\ \E random_cos \in { 1, 0 - 1 } :
          Install(Collected(Call("IssueOrder", World(random_cos),
                                 << u, order_type,
                                    ColonyParameters(target_id,
                                                     IF order_type = "LOAD_COLONISTS"
                                                     THEN LoadAmount ELSE 0),
                                    shift_pressed >>)))
    /\ orders_issued' = orders_issued + 1
    /\ last_op' = Op("add_order", u)
    /\ UNCHANGED << pathVars, inhibitor_component, constructVars >>
    /\ UNCHANGED turnVars

\* the toggle button with SHIFT held: a queued TOGGLE_INHIBITOR order
QueueToggle(u) ==
    /\ pc = "idle"
    /\ orders_issued < MaxOrdersIssued
    /\ HasInhibitor(u)
    /\ Install(Collected(Call("IssueOrder", World(1),
                               << u, "TOGGLE_INHIBITOR", ToggleParameters(~ is_active[u]),
                                  TRUE >>)))
    /\ orders_issued' = orders_issued + 1
    /\ last_op' = Op("add_order", u)
    /\ UNCHANGED << pathVars, inhibitor_component, constructVars >>
    /\ UNCHANGED turnVars

\* the toggle button without SHIFT
DirectToggle(u) ==
    /\ pc = "idle"
    /\ HasInhibitor(u)
    /\ Install(toggle(World(1), u))
    /\ last_op' = Op("toggle", u)
    /\ UNCHANGED << pathVars, inhibitor_component, constructVars >>
    /\ UNCHANGED << turnVars, orders_issued >>

\* Commander.cancel_order for an order the commander holds
CancelOrder(u, order_id) ==
    /\ pc = "idle"
    /\ \/ current_order[u] = order_id
       \/ \E i \in DOMAIN orders_queue[u] : orders_queue[u][i] = order_id
    /\ \E random_cos \in { 1, 0 - 1 } :
          Install(Collected(Call("cancel_order", World(random_cos), << u, order_id >>)))
    /\ last_op' = Op("cancel_order", u)
    /\ UNCHANGED << pathVars, inhibitor_component, constructVars >>
    /\ UNCHANGED << turnVars, orders_issued >>

\* "cancel_orders" of the context menu
ClearOrders(u) ==
    /\ pc = "idle"
    /\ UnitDef[u].owner = current_player
    /\ current_order[u] # NoOrder \/ orders_queue[u] # << >>
    /\ Install(Collected(clear_orders(World(1), u)))
    /\ last_op' = Op("clear_orders", u)
    /\ UNCHANGED << pathVars, inhibitor_component, constructVars >>
    /\ UNCHANGED << turnVars, orders_issued >>

\* "issue_move_order" with SHIFT held, as often as MaxQueued allows
QueueMove(u, parameters) ==
    /\ pc = "idle"
    /\ orders_issued < MaxQueued
    /\ UnitDef[u].owner = current_player
    /\ HasEngines(u) /\ HasHyperdrive(u)
    /\ \E random_cos \in { 1, 0 - 1 } :
          Install(Collected(Call("IssueOrder", World(random_cos),
                                 << u, "MOVE", parameters, TRUE >>)))
    /\ orders_issued' = orders_issued + 1
    /\ last_op' = Op("add_order", u)
    /\ UNCHANGED << pathVars, inhibitor_component, constructVars >>
    /\ UNCHANGED turnVars

\* ------------------------------------------------------------------------
\* Construction (unit_components.py Constructor, unit_orders.py CONSTRUCT)
\* ------------------------------------------------------------------------
\* Player.__init__
STARTING_CREDITS == 2000

\* Planet.max_population * TAX_RATE
PlanetTax == 10

\* start_new_game gives a constructor to the medium stations only
HasConstructor(u) == u = Station

\* Constructor.__post_init__
buildable_units ==
    << [unit_template_name |-> "STATION_MK1", time_to_build |-> 10, cost_credits |-> 500] >>

\* the names of UNIT_TEMPLATES
TemplateNames == { "CONSTRUCTOR_MK1", "STATION_MK1" }

\* Constructor.__init__
NewConstructor ==
    [current_construction_target |-> None, construction_progress |-> 0, time_to_build |-> 0]

\* Constructor.can_build: the first buildable unit of that name, or None
can_build(unit_template_name) ==
    IF \E i \in DOMAIN buildable_units :
          buildable_units[i].unit_template_name = unit_template_name
    THEN Some(buildable_units[CHOOSE i \in DOMAIN buildable_units :
                 /\ buildable_units[i].unit_template_name = unit_template_name
                 /\ \A j \in 1 .. (i - 1) :
                       buildable_units[j].unit_template_name # unit_template_name])
    ELSE None

\* the players' credits and the units' constructors as one value
Economy == [credits |-> credits, constructor_component |-> constructor_component]

\* start_construction without its own look at the owner's credits
StartUnchecked(e, u, unit_template_name, target_position) ==
    LET buildable == can_build(unit_template_name)
    IN IF buildable = None THEN e
       ELSE [e EXCEPT !.credits[UnitDef[u].owner] = @ - buildable[1].cost_credits,
                      !.constructor_component[u] =
                          Some([current_construction_target |->
                                    Some(<< unit_template_name, target_position >>),
                                time_to_build |-> buildable[1].time_to_build,
                                construction_progress |-> 0])]

\* Constructor.start_construction (its result is not read by the caller)
start_construction(e, u, unit_template_name, target_position) ==
    LET buildable == can_build(unit_template_name)
        owner == UnitDef[u].owner
    IN IF buildable = None THEN e
       ELSE IF e.credits[owner] < buildable[1].cost_credits THEN e
       ELSE [e EXCEPT !.credits[owner] = @ - buildable[1].cost_credits,
                      !.constructor_component[u] =
                          Some([current_construction_target |->
                                    Some(<< unit_template_name, target_position >>),
                                time_to_build |-> buildable[1].time_to_build,
                                construction_progress |-> 0])]

\* Order.execute of a PENDING CONSTRUCT order: the economy and the order's
\* status when it returns
_execute_construct(e, u, parameters) ==
    IF e.constructor_component[u] = None THEN [economy |-> e, status |-> "FAILED"]
    ELSE IF parameters.unit_template_name = "" THEN [economy |-> e, status |-> "FAILED"]
    ELSE LET buildable == can_build(parameters.unit_template_name)
             owner == UnitDef[u].owner
         IN IF buildable = None THEN [economy |-> e, status |-> "FAILED"]
            ELSE IF e.credits[owner] < buildable[1].cost_credits
            THEN [economy |-> e, status |-> "FAILED"]
            ELSE [economy |->
                      start_construction(
                          [e EXCEPT !.credits[owner] = @ - buildable[1].cost_credits],
                          u, parameters.unit_template_name, parameters.target_position),
                  status |-> "COMPLETED"]

\* "construct_<template>" of the context menu for a unit without orders:
\* add_order starts the order, and execute() runs at once
Construct(u, unit_template_name, target_position) ==
    /\ created_units < MaxCreated
    /\ LET parameters == [unit_template_name |-> unit_template_name,
                          target_position |-> target_position]
           done == _execute_construct(Economy, u, parameters)
       IN /\ credits' = done.economy.credits
          /\ constructor_component' = done.economy.constructor_component
          /\ construct_order' = [unit |-> u, parameters |-> parameters,
                                 status |-> done.status]
    /\ last_op' = Op("construct", u)
    /\ UNCHANGED << worldVars, turnVars, orders_issued, pathVars, inhibitor_component,
                    created_units >>

\* process_turn, resource generation: the taxes of a planet at max_population
\* (100 inhabitants at TAX_RATE 0.1) that the player has colonised
GenerateResources(player) ==
    /\ credits[player] + PlanetTax <= MaxCredits
    /\ credits' = [credits EXCEPT ![player] = @ + PlanetTax]
    /\ last_op' = Op("GenerateResources", NoUnit)
    /\ UNCHANGED << worldVars, turnVars, orders_issued, pathVars, inhibitor_component,
                    constructor_component, construct_order, created_units >>

\* Constructor.update, with finish_construction
ConstructorUpdate(u) ==
    /\ constructor_component[u] # None
    /\ constructor_component[u][1].current_construction_target # None
    /\ LET progress == constructor_component[u][1].construction_progress + 1
       IN IF progress >= constructor_component[u][1].time_to_build
          THEN /\ constructor_component' = [constructor_component EXCEPT ![u] = Some(NewConstructor)]
               /\ created_units' = created_units + 1
          ELSE /\ constructor_component' =
                      [constructor_component EXCEPT ![u] =
                          Some([@[1] EXCEPT !.construction_progress = progress])]
               /\ UNCHANGED created_units
    /\ last_op' = Op("ConstructorUpdate", u)
    /\ UNCHANGED << worldVars, turnVars, orders_issued, pathVars, inhibitor_component,
                    credits, construct_order >>

\* ------------------------------------------------------------------------
\* The state machine
\* ------------------------------------------------------------------------
\* Unit.__init__ for the units of start_new_game, given the emitters they carry
NewGameAt(emitters, cargo_holds, spawn) ==
    /\ inhibitor_component = emitters
    /\ colony_component = cargo_holds
    /\ bodies = [ id \in DOMAIN ColonisableBodies |-> [owner |-> None, population |-> 0] ]
    /\ orders = [ id \in {} |-> 0 ]
    /\ order_counter = 0
    /\ current_order = [ u \in DOMAIN emitters |-> NoOrder ]
    /\ orders_queue = [ u \in DOMAIN emitters |-> << >> ]
    /\ in_system = [ u \in DOMAIN emitters |-> UnitDef[u].start_system ]
    /\ in_hex = [ u \in DOMAIN emitters |-> UnitDef[u].start_hex ]
    /\ position = spawn
    /\ hex_units = [ s \in SystemNames |-> [ h \in Hexes(s) |->
                       SelectSeq(<< Ship, Station, Scout, Courier >>,
                                 LAMBDA u : u \in DOMAIN emitters
                                            /\ UnitDef[u].start_system = s
                                            /\ UnitDef[u].start_hex = h) ] ]
    /\ move_target = [ u \in { x \in DOMAIN emitters : HasEngines(x) } |-> None ]
    /\ hex_jump_target = [ u \in { x \in DOMAIN emitters : HasHyperdrive(x) } |-> None ]
    /\ wormhole_jump_target = [ u \in { x \in DOMAIN emitters : HasHyperdrive(x) } |-> None ]
    /\ jump_status = [ u \in { x \in DOMAIN emitters : HasHyperdrive(x) } |-> "READY" ]
    /\ recharge_time_remaining = [ u \in { x \in DOMAIN emitters : HasHyperdrive(x) } |-> 0 ]
    /\ is_active = [ u \in { x \in DOMAIN emitters : emitters[x] # None } |-> FALSE ]
    /\ dynamic_inhibition_zones = [ s \in SystemNames |-> [ h \in Hexes(s) |-> << >> ] ]
    /\ current_player_index = 1
    /\ pc = "idle"
    /\ system_index = 1
    /\ units_to_move = << >>
    /\ units_to_update = << >>
    /\ at_turn_start = << >>
    /\ orders_issued = 0
    /\ log = << >>
    /\ last_op = Op("init", NoUnit)
    /\ jump_path = << >>
    /\ intersystem_path = << >>
    /\ credits = [ player \in { Players[i] : i \in DOMAIN Players } |-> STARTING_CREDITS ]
    /\ constructor_component = [ u \in DOMAIN emitters |->
                                  IF HasConstructor(u) THEN Some(NewConstructor)
                                                ELSE None ]
    /\ construct_order = << >>
    /\ created_units = 0

\* the game with every unit at the position UnitDef gives it
NewGame(emitters, cargo_holds) ==
    NewGameAt(emitters, cargo_holds, [ u \in DOMAIN emitters |-> UnitDef[u].start_position ])

Init == NewGame([ u \in Units |-> UnitDef[u].inhibitor_radius ], [ u \in Units |-> None ])

Next ==
    \/ \E u \in Units, parameters \in MoveDestinations, shift_pressed \in BOOLEAN :
          IssueMove(u, parameters, shift_pressed)
    \/ \E u \in Units, parameters \in WaypointDestinations : AddWaypointOrder(u, parameters)
    \/ \E u \in Units, parameters \in MoveDestinations : AddMoveOrder(u, parameters)
    \/ \E u \in Units : QueueToggle(u)
    \/ \E u \in Units : DirectToggle(u)
    \/ \E u \in Units, order_id \in DOMAIN orders : CancelOrder(u, order_id)
    \/ \E u \in Units : ClearOrders(u)
    \/ ProcessTurnBegin
    \/ MoveSystem
    \/ JumpBegin
    \/ JumpExecute
    \/ NextSystem
    \/ UnitUpdate
    \/ EndTurn

Spec == Init /\ [][Next]_vars

\* The commander of a unit between two turns: orders are queued and cancelled
CommanderNext ==
    \/ \E u \in Units, parameters \in MoveDestinations : QueueMove(u, parameters)
    \/ \E u \in Units, order_id \in DOMAIN orders : CancelOrder(u, order_id)
    \/ \E u \in Units : ClearOrders(u)

CommanderSpec == Init /\ [][CommanderNext]_vars

\* The game with players who keep ending their turns: end_turn is called
\* again and again, and process_turn, a sequential procedure of bounded loops,
\* returns every time it is called
LiveSpec ==
    Init /\ [][Next]_vars /\ WF_vars(ProcessTurnBegin) /\ []<>(pc = "idle")

\* A fleet whose ship carries an emitter as well: Unit.__init__ builds an
\* emitter for any unit that is given an inhibitor_radius, with or without
\* engines and a hyperdrive
ShipInhibitorRadius == 100 * TicksPerUnit

InhibitorInit ==
    NewGame([ u \in Units |-> IF u = Ship THEN Some(ShipInhibitorRadius)
                              ELSE UnitDef[u].inhibitor_radius ],
            [ u \in Units |-> None ])

\* destinations of that ship: a point of the wormhole's hex outside the
\* wormhole's inhibition zone, a point of that hex closer to the boundary
\* circle than the emitter's radius, and the far end of the wormhole
InhibitorDestinations ==
    { WaypointParameters("Sol", << 2, 0 >>, Position(700 * TicksPerUnit, 0)),
      WaypointParameters("Sol", << 2, 0 >>, Position(950 * TicksPerUnit, 0)),
      WaypointParameters("Alpha", << 0 - 2, 0 >>, Position(0, 0)) }

InhibitorNext ==
    \/ \E u \in Units, parameters \in InhibitorDestinations, shift_pressed \in BOOLEAN :
          IssueMove(u, parameters, shift_pressed)
    \/ \E u \in Units : QueueToggle(u)
    \/ \E u \in Units : DirectToggle(u)
    \/ ProcessTurnBegin
    \/ MoveSystem
    \/ JumpBegin
    \/ JumpExecute
    \/ NextSystem
    \/ UnitUpdate
    \/ EndTurn

InhibitorSpec == InhibitorInit /\ [][InhibitorNext]_vars

\* Units that are given CONSTRUCT orders while they have no other order,
\* between the turns that pay the taxes and advance the constructions
ConstructTargets == { Position(0, 0), Position(300 * TicksPerUnit, 0) }

ConstructNext ==
    \/ \E u \in Units, unit_template_name \in TemplateNames,
          target_position \in ConstructTargets :
          Construct(u, unit_template_name, target_position)
    \/ GenerateResources(UnitDef[Station].owner)
    \/ \E u \in Units : ConstructorUpdate(u)

ConstructSpec == Init /\ [][ConstructNext]_vars

\* The game in which the ship is the colony ship of its player, which is
\* sent to the moon and ordered to colonise it or to load colonists there.
ColonyInit ==
    NewGame([ u \in Units |-> UnitDef[u].inhibitor_radius ],
            [ u \in Units |-> IF u = Ship THEN Some(0) ELSE None ])

ColonyDestinations ==
    { WaypointParameters(ColonisableBodies[MoonId].in_system, ColonisableBodies[MoonId].in_hex,
                         ColonisableBodies[MoonId].position) }

ColonyNext ==
    \/ \E u \in Units, order_type \in { "COLONIZE", "LOAD_COLONISTS" },
          shift_pressed \in BOOLEAN :
          IssueColony(u, order_type, MoonId, shift_pressed)
    \/ \E u \in Units, parameters \in ColonyDestinations :
          IssueMove(u, parameters, FALSE)
    \/ ProcessTurnBegin
    \/ MoveSystem
    \/ JumpBegin
    \/ JumpExecute
    \/ NextSystem
    \/ UnitUpdate
    \/ EndTurn

ColonySpec == ColonyInit /\ [][ColonyNext]_vars

\* The game in which the first player has two ships: both are sent on
\* their way, one into the other system.
FleetInit ==
    NewGame([ u \in Fleet |-> UnitDef[u].inhibitor_radius ], [ u \in Fleet |-> None ])

FleetDestinations ==
    { WaypointParameters("Alpha", << 0 - 2, 2 >>, Position(0, 0)),
      WaypointParameters("Sol", << 1, 1 >>, Position(0, 0)) }

FleetNext ==
    \/ \E u \in Fleet, parameters \in FleetDestinations : IssueMove(u, parameters, FALSE)
    \/ ProcessTurnBegin
    \/ MoveSystem
    \/ JumpBegin
    \/ JumpExecute
    \/ NextSystem
    \/ UnitUpdate
    \/ EndTurn

FleetSpec == FleetInit /\ [][FleetNext]_vars

\* The game in which the ship is spawned at one of several points of its hex
\* ("random_point_in_circle(SECTOR_CIRCLE_RADIUS_LOGICAL / 4)") and is sent
\* to positions of that hex, which it reaches at sub-light speed, and to a
\* position of the next hex.
SpawnPositions ==
    { Position(0, 0), Position(150 * TicksPerUnit, 200 * TicksPerUnit),
      Position(0 - 70 * TicksPerUnit, 240 * TicksPerUnit) }

SublightInit ==
    \E ship_pos \in SpawnPositions :
        NewGameAt([ u \in Units |-> UnitDef[u].inhibitor_radius ], [ u \in Units |-> None ],
                  [ u \in Units |-> IF u = Ship THEN ship_pos ELSE UnitDef[u].start_position ])

SublightDestinations ==
    { WaypointParameters("Sol", << 0 - 2, 2 >>, Position(300 * TicksPerUnit, 0)),
      WaypointParameters("Sol", << 0 - 2, 2 >>,
                         Position(450 * TicksPerUnit, 0 - 600 * TicksPerUnit)),
      WaypointParameters("Sol", << 0 - 2, 2 >>,
                         Position(0 - 630 * TicksPerUnit, 160 * TicksPerUnit)),
      WaypointParameters("Sol", << 0 - 1, 1 >>,
                         Position(0 - 400 * TicksPerUnit, 300 * TicksPerUnit)) }

SublightNext ==
    \/ \E u \in Units, parameters \in SublightDestinations, shift_pressed \in BOOLEAN :
          IssueMove(u, parameters, shift_pressed)
    \/ ProcessTurnBegin
    \/ MoveSystem
    \/ JumpBegin
    \/ JumpExecute
    \/ NextSystem
    \/ UnitUpdate
    \/ EndTurn

SublightSpec == SublightInit /\ [][SublightNext]_vars

\* StarSystem.generate_grid for a system of the largest radius
LargestGrid ==
    { h \in (0 - MAX_SYSTEM_RADIUS .. MAX_SYSTEM_RADIUS)
             \X (0 - MAX_SYSTEM_RADIUS .. MAX_SYSTEM_RADIUS) :
        /\ Max(0 - MAX_SYSTEM_RADIUS, 0 - h[1] - MAX_SYSTEM_RADIUS) <= h[2]
        /\ h[2] <= Min(MAX_SYSTEM_RADIUS, 0 - h[1] + MAX_SYSTEM_RADIUS) }

\* Hyperdrive.jump_range, a constructor argument (the default is the largest here)
JumpRanges == 1 .. DEFAULT_JUMP_RANGE

\* plan_hex_jump_sequence asks for the hexes to jump through, for a unit in
\* start_hex with a hyperdrive of range max_range and another hex of its system
PlanJumpPath(start_hex, end_hex, max_range) ==
    /\ start_hex # end_hex
    /\ FloatExact(start_hex, end_hex, max_range)
    /\ jump_path' = [start_hex |-> start_hex, end_hex |-> end_hex, max_range |-> max_range,
                     waypoints |-> find_hex_jump_path(start_hex, end_hex, max_range)]
    /\ UNCHANGED << worldVars, turnVars, orders_issued, last_op, intersystem_path,
                    inhibitor_component, constructVars >>

\* one call in a behaviour
PathNext ==
    /\ jump_path = << >>
    /\ \E start_hex \in LargestGrid, end_hex \in LargestGrid, max_range \in JumpRanges :
          PlanJumpPath(start_hex, end_hex, max_range)

PathSpec == Init /\ [][PathNext]_vars

\* keys of the graphs handed to find_intersystem_path, and a name that is
\* not a key
GraphNodes == { "Alpha", "Beta", "Gamma", "Sol" }
NodeNames == GraphNodes \cup { "Vega" }

\* Galaxy._build_system_graph: every key has a list of other keys, none
\* of them twice
NeighbourLists ==
    { l \in UNION { [1 .. n -> GraphNodes] : n \in 0 .. MaxNeighbours } :
        \A i, j \in DOMAIN l : i # j => l[i] # l[j] }

Graphs ==
    { g \in [GraphNodes -> NeighbourLists] :
        \A n \in GraphNodes : \A i \in DOMAIN g[n] : g[n][i] # n }

FindPath(graph, start_node, end_node) ==
    /\ intersystem_path' = [graph |-> graph, start_node |-> start_node, end_node |-> end_node,
                            path |-> find_intersystem_path(graph, start_node, end_node)]
    /\ UNCHANGED << worldVars, turnVars, orders_issued, last_op, jump_path,
                    inhibitor_component, constructVars >>

\* one call in a behaviour
GraphNext ==
    /\ intersystem_path = << >>
    /\ \E graph \in Graphs, start_node \in NodeNames, end_node \in NodeNames :
          FindPath(graph, start_node, end_node)

GraphSpec == Init /\ [][GraphNext]_vars

\* ------------------------------------------------------------------------
\* Properties
\* ------------------------------------------------------------------------
\* C1: Order.update processes sub-orders strictly front to back.  A sub-order
\* is executed (leaves PENDING) only at the head of its parent's queue, that
\* is after every sub-order ahead of it has been popped; a sub-order is popped
\* only from the head and only once it is COMPLETED, FAILED or CANCELLED; and
\* once the head is still IN_PROGRESS after its own update the call returns:
\* it touches no further sub-order of that parent, pops nothing and does not
\* check the parent's completion conditions.
C1_FrontToBack ==
    \A i \in DOMAIN log :
        /\ (log[i].ev = "execute" /\ log[i].parent # NoOrder) => log[i].pos = 1
        /\ log[i].ev = "pop" => (log[i].pos = 1 /\ log[i].status \in Terminal)
        /\ log[i].ev = "blocked" =>
              /\ log[i].status = "IN_PROGRESS"
              /\ log[i].pos = 1
              /\ \A j \in (i + 1)..Len(log) :
                    /\ log[j].parent # log[i].parent
                    /\ ~ (log[j].id = log[i].parent /\ log[j].ev \in { "check", "update" })

\* C1 witness: one update popped a finished head, executed the sub-order that
\* was behind it, and stopped there with a further sub-order still waiting
C1_Witness ==
    \E i, j, k \in DOMAIN log :
        /\ i < j /\ j < k
        /\ log[i].ev = "pop"
        /\ log[j].ev = "execute" /\ log[j].parent = log[i].parent
        /\ log[k].ev = "blocked" /\ log[k].id = log[j].id
        /\ log[j].parent \in DOMAIN orders
        /\ Len(orders[log[j].parent].sub_orders) >= 2

\* C2: the IN_PROGRESS orders of a unit form one chain from the current order
\* downward.  An order is IN_PROGRESS only if it is some unit's current order
\* or the head of the sub_orders of an IN_PROGRESS order; every sub-order
\* that is not the head of its queue and every entry of a backlog is PENDING.
C2_InProgressChain ==
    /\ \A o \in DOMAIN orders :
          /\ orders[o].status = "IN_PROGRESS" =>
                \/ \E u \in Units : current_order[u] = o
                \/ /\ orders[o].parent_order \in DOMAIN orders
                   /\ orders[orders[o].parent_order].status = "IN_PROGRESS"
                   /\ orders[orders[o].parent_order].sub_orders # << >>
                   /\ Head(orders[orders[o].parent_order].sub_orders) = o
          /\ \A i \in 2..Len(orders[o].sub_orders) :
                orders[orders[o].sub_orders[i]].status = "PENDING"
    /\ \A u \in Units : \A i \in DOMAIN orders_queue[u] :
          orders[orders_queue[u][i]].status = "PENDING"

\* C2 witness: a Commander operation has returned with a chain of two
\* IN_PROGRESS orders, a sub-order waiting behind the head and a backlog
C2_Witness ==
    \E u \in Units :
        /\ last_op.op \in { "add_order", "cancel_order", "clear_orders", "UnitUpdate" }
        /\ current_order[u] # NoOrder
        /\ orders[current_order[u]].status = "IN_PROGRESS"
        /\ Len(orders[current_order[u]].sub_orders) >= 2
        /\ orders[Head(orders[current_order[u]].sub_orders)].status = "IN_PROGRESS"
        /\ orders_queue[u] # << >>

\* C3: after add_order, cancel_order or update has returned, the unit's
\* current_order is absent or PENDING or IN_PROGRESS (a terminal order has
\* been discarded), and it is absent only when the backlog is empty (the
\* next entry has been promoted).
C3_CurrentOrderLive ==
    \A u \in Units :
        (last_op.unit = u /\ last_op.op \in { "add_order", "cancel_order", "UnitUpdate" }) =>
            /\ current_order[u] # NoOrder =>
                  orders[current_order[u]].status \in { "PENDING", "IN_PROGRESS" }
            /\ current_order[u] = NoOrder => orders_queue[u] = << >>


\* C4: every change of a hyperdrive's jump_status is READY to JUMPING,
\* JUMPING to CHARGING, CHARGING to READY, or a change to ERROR; and no step
\* (turn processing, recharge tick, order execution, cancellation,
\* clear_orders) changes a status that is ERROR.
C4_JumpStatusTransitions ==
    [][\A u \in HyperdriveUnits :
          /\ jump_status'[u] # jump_status[u] =>
                \/ << jump_status[u], jump_status'[u] >> \in
                       { << "READY", "JUMPING" >>, << "JUMPING", "CHARGING" >>,
                         << "CHARGING", "READY" >> }
                \/ jump_status'[u] = "ERROR"
          /\ jump_status[u] = "ERROR" => jump_status'[u] = "ERROR"]_vars

\* C4 witness: a drive in ERROR has been through a later update() of its unit
\* with an order to run, and is in ERROR still
C4_Witness ==
    \E u \in HyperdriveUnits :
        /\ jump_status[u] = "ERROR"
        /\ last_op = Op("UnitUpdate", u)
        /\ at_turn_start # << >>
        /\ at_turn_start.jump_status[u] = "ERROR"
        /\ log # << >>

\* the place of a unit
Location(u) == << in_system[u], in_hex[u], position[u] >>

\* C5: within one process_turn every sub-light step and every jump comes
\* before any unit's update().  Units move only in the movement and jump
\* steps, and only units of the acting player; once the update phase has
\* begun no unit moves until the turn is over, so a target an order sets
\* there is acted on in a later turn only; and while movement and jumps are
\* under way no order and no commander changes.
C5_MovementBeforeUpdates ==
    [][/\ \A u \in Units :
             Location(u)' # Location(u) =>
                 /\ pc \in { "movement", "jumping" }
                 /\ UnitDef[u].owner = current_player
       /\ pc = "updates" =>
             /\ pc' \in { "updates", "idle" }
             /\ \A u \in Units : Location(u)' = Location(u)
       /\ pc \in { "movement", "jumps", "jumping" } =>
             /\ UNCHANGED << orders, current_order, orders_queue >>
             /\ pc' # "idle"]_vars

\* C5 witness: in the update phase an order has just been executed and has
\* set a jump target for its unit
C5_Witness ==
    \E u \in HyperdriveUnits :
        /\ pc = "updates"
        /\ last_op = Op("UnitUpdate", u)
        /\ \E i \in DOMAIN log : log[i].ev = "execute"
        /\ hex_jump_target[u] # None
        /\ at_turn_start.hex_jump_target[u] # hex_jump_target[u]

\* the point is inside a static or dynamic inhibition zone of the hex now
InAZone(system_name, hex, point) ==
    \/ \E i \in DOMAIN static_inhibition_zones(system_name, hex) :
          is_point_in_circle(point, static_inhibition_zones(system_name, hex)[i])
    \/ \E i \in DOMAIN dynamic_inhibition_zones[system_name][hex] :
          is_point_in_circle(point, dynamic_inhibition_zones[system_name][hex][i].zone)

\* the number of hexes between two hexes
HexSteps(a, b) ==
    LET dq == a[1] - b[1]
        dr == a[2] - b[2]
    IN Max(Max(Abs(dq), Abs(dr)), Abs(dq + dr))

\* C6: every hex jump the turn processor completes (the unit's hex changes,
\* its system does not) is made by a drive that was neither CHARGING nor in
\* ERROR, spans at most jump_range hexes, departs from a position outside
\* every inhibition zone of the origin hex and lands on a position outside
\* every inhibition zone of the destination hex.
C6_HexJumpSafety ==
    [][\A u \in HyperdriveUnits :
          (in_hex'[u] # in_hex[u] /\ in_system'[u] = in_system[u]) =>
              /\ jump_status[u] \notin { "CHARGING", "ERROR" }
              /\ HexSteps(in_hex[u], in_hex'[u]) <= jump_range(u)
              /\ ~ InAZone(in_system[u], in_hex[u], position[u])
              /\ ~ InAZone(in_system[u], in_hex'[u], position'[u])]_vars

\* C6 witness: a hex jump inside Sol has just been completed
C6_Witness ==
    \E u \in HyperdriveUnits :
        /\ last_op = Op("JumpExecute", u)
        /\ jump_status[u] = "CHARGING"
        /\ in_system[u] = at_turn_start.in_system[u]
        /\ in_hex[u] # at_turn_start.in_hex[u]


\* process_turn has done all its work: every unit update has run
TurnProcessed == pc = "updates" /\ units_to_update = << >>

\* the point was inside an inhibition zone of the hex when the turn began
WasInAZone(system_name, hex, point) ==
    \/ \E i \in DOMAIN static_inhibition_zones(system_name, hex) :
          is_point_in_circle(point, static_inhibition_zones(system_name, hex)[i])
    \/ \E i \in DOMAIN at_turn_start.dynamic_inhibition_zones[system_name][hex] :
          is_point_in_circle(point,
                             at_turn_start.dynamic_inhibition_zones[system_name][hex][i].zone)

\* the hex-jump target the unit had when the turn began was invalid
HexTargetWasInvalid(u) ==
    LET target_hex == at_turn_start.hex_jump_target[u][1][1]
        target_pos == at_turn_start.hex_jump_target[u][1][2]
        system_name == at_turn_start.in_system[u]
    IN \/ target_hex \notin Hexes(system_name)
       \/ HexSteps(at_turn_start.in_hex[u], target_hex) > jump_range(u)
       \/ WasInAZone(system_name, at_turn_start.in_hex[u], at_turn_start.position[u])
       \/ target_hex \in Hexes(system_name) /\ WasInAZone(system_name, target_hex, target_pos)

\* the wormhole-jump target the unit had when the turn began was invalid
WormholeTargetWasInvalid(u) ==
    LET entry == Wormholes[at_turn_start.wormhole_jump_target[u][1]]
    IN \/ entry.exit_system_name \notin SystemNames
       \/ entry.exit_wormhole_id \notin DOMAIN Wormholes
       \/ Wormholes[entry.exit_wormhole_id].in_system # entry.exit_system_name

\* C7: when a unit of the acting player goes into process_turn with a jump
\* target set, its drive READY and the target invalid (the target system or
\* hex does not exist, the wormhole's exit pairing is missing or leads
\* elsewhere, the hex is out of jump range, or the departure or landing
\* position of the hex jump is inhibited), then after process_turn the drive
\* is in ERROR and that target is cleared.
C7_InvalidTargetEndsInError ==
    TurnProcessed =>
        \A u \in HyperdriveUnits :
            (UnitDef[u].owner = current_player /\ at_turn_start.jump_status[u] = "READY") =>
                /\ (/\ at_turn_start.wormhole_jump_target[u] # None
                    /\ WormholeTargetWasInvalid(u)) =>
                       (jump_status[u] = "ERROR" /\ wormhole_jump_target[u] = None)
                /\ (/\ at_turn_start.wormhole_jump_target[u] = None
                    /\ at_turn_start.hex_jump_target[u] # None
                    /\ HexTargetWasInvalid(u)) =>
                       (jump_status[u] = "ERROR" /\ hex_jump_target[u] = None)

\* C8: a unit that goes into process_turn with its drive CHARGING and a jump
\* target set comes out of it in the same system and hex and at the same
\* position, with the same jump target, its drive not in ERROR and none of
\* its orders FAILED; of the drive only the countdown has changed, by the one
\* recharge tick of its owner's turn (and the status to READY when the tick
\* brings the countdown to 0), and nothing in another player's turn.
C8_ChargingDefersJump ==
    TurnProcessed =>
        \A u \in HyperdriveUnits :
            (/\ at_turn_start.jump_status[u] = "CHARGING"
             /\ \/ at_turn_start.hex_jump_target[u] # None
                \/ at_turn_start.wormhole_jump_target[u] # None) =>
                /\ Location(u) = << at_turn_start.in_system[u], at_turn_start.in_hex[u],
                                    at_turn_start.position[u] >>
                /\ hex_jump_target[u] = at_turn_start.hex_jump_target[u]
                /\ wormhole_jump_target[u] = at_turn_start.wormhole_jump_target[u]
                /\ jump_status[u] # "ERROR"
                /\ \A o \in DOMAIN at_turn_start.orders :
                      (at_turn_start.orders[o].unit = u
                       /\ at_turn_start.orders[o].status # "FAILED") =>
                          (o \in DOMAIN orders => orders[o].status # "FAILED")
                /\ IF UnitDef[u].owner = current_player
                   THEN /\ recharge_time_remaining[u] = at_turn_start.recharge_time_remaining[u] - 1
                        /\ jump_status[u] = IF recharge_time_remaining[u] = 0
                                            THEN "READY" ELSE "CHARGING"
                   ELSE /\ recharge_time_remaining[u] = at_turn_start.recharge_time_remaining[u]
                        /\ jump_status[u] = "CHARGING"

\* C8 witness: the turn of a unit's owner is over; the unit went into it
\* CHARGING with 2 turns to go and a hex-jump target set by an order that is
\* still in progress
C8_Witness ==
    \E u \in HyperdriveUnits :
        /\ TurnProcessed
        /\ UnitDef[u].owner = current_player
        /\ at_turn_start.jump_status[u] = "CHARGING"
        /\ at_turn_start.recharge_time_remaining[u] = 2
        /\ at_turn_start.hex_jump_target[u] # None
        /\ current_order[u] # NoOrder
        /\ orders[current_order[u]].status = "IN_PROGRESS"

\* C9: a completed jump leaves the drive CHARGING with the countdown at
\* RECHARGE_DURATION and both jump targets cleared.  Every process_turn of
\* the owner takes exactly 1 off the countdown of a CHARGING drive, the turn
\* of the jump included (its update phase), and the turn of another player
\* takes nothing off.  The countdown stays within 0..RECHARGE_DURATION, it is
\* positive exactly while the drive is CHARGING, so the drive becomes READY
\* on the tick that brings it to 0.
C9_RechargeCountdown ==
    \A u \in HyperdriveUnits :
        /\ recharge_time_remaining[u] \in 0..RECHARGE_DURATION(u)
        /\ (recharge_time_remaining[u] > 0) <=> (jump_status[u] = "CHARGING")
        /\ (last_op = Op("JumpExecute", u) /\ jump_status[u] = "CHARGING") =>
              /\ recharge_time_remaining[u] = RECHARGE_DURATION(u)
              /\ hex_jump_target[u] = None
              /\ wormhole_jump_target[u] = None
        /\ (TurnProcessed /\ UnitDef[u].owner = current_player) =>
              /\ at_turn_start.jump_status[u] = "CHARGING" =>
                    /\ recharge_time_remaining[u] = at_turn_start.recharge_time_remaining[u] - 1
                    /\ (jump_status[u] = "READY") <=> (recharge_time_remaining[u] = 0)
              /\ (at_turn_start.jump_status[u] = "READY" /\ jump_status[u] \notin { "READY", "ERROR" }) =>
                    /\ recharge_time_remaining[u] = RECHARGE_DURATION(u) - 1
                    /\ jump_status[u] = "CHARGING"
        /\ (TurnProcessed /\ UnitDef[u].owner # current_player) =>
              /\ recharge_time_remaining[u] = at_turn_start.recharge_time_remaining[u]
              /\ jump_status[u] = at_turn_start.jump_status[u]

\* C9 witness: the owner's turn in which the countdown went from 1 to 0 and
\* the drive became READY
C9_Witness ==
    \E u \in HyperdriveUnits :
        /\ TurnProcessed
        /\ UnitDef[u].owner = current_player
        /\ at_turn_start.jump_status[u] = "CHARGING"
        /\ at_turn_start.recharge_time_remaining[u] = 1
        /\ jump_status[u] = "READY"
        /\ recharge_time_remaining[u] = 0

\* the targets of the unit that are set
TargetsSet(u) ==
    (IF HasEngines(u) /\ move_target[u] # None THEN { "move_target" } ELSE { })
    \cup (IF HasHyperdrive(u) /\ hex_jump_target[u] # None THEN { "hex_jump_target" } ELSE { })
    \cup (IF HasHyperdrive(u) /\ wormhole_jump_target[u] # None
          THEN { "wormhole_jump_target" } ELSE { })

\* the last order the log shows executed
LastExecuted == log[CHOOSE i \in DOMAIN log :
                        /\ log[i].ev = "execute"
                        /\ \A j \in (i + 1)..Len(log) : log[j].ev # "execute"].id

\* C10: at most one of move_target, hex_jump_target and wormhole_jump_target
\* of a unit is set in any state; and when the last order an operation has
\* executed is a REACH_WAYPOINT that is IN_PROGRESS when the operation
\* returns, exactly one is set: hex_jump_target for a destination in another
\* hex of the unit's system, wormhole_jump_target for one in another system,
\* move_target for one in the unit's hex.
C10_OneTarget ==
    /\ \A u \in Units : Cardinality(TargetsSet(u)) <= 1
    /\ (/\ \E i \in DOMAIN log : log[i].ev = "execute"
        /\ LastExecuted \in DOMAIN orders
        /\ orders[LastExecuted].order_type = "REACH_WAYPOINT"
        /\ orders[LastExecuted].status = "IN_PROGRESS") =>
              LET u == orders[LastExecuted].unit
                  dsys == orders[LastExecuted].parameters.destination_system_name[1]
                  dhex == orders[LastExecuted].parameters.destination_hex_coord[1]
              IN TargetsSet(u) =
                    IF in_system[u] # dsys THEN { "wormhole_jump_target" }
                    ELSE IF in_hex[u] # dhex THEN { "hex_jump_target" }
                    ELSE { "move_target" }

\* C10 witness: an update has executed a REACH_WAYPOINT to another system
\* while the unit was moving sub-light a turn before, and the wormhole is now
\* the only target
C10_Witness ==
    \E u \in HyperdriveUnits :
        /\ last_op = Op("UnitUpdate", u)
        /\ \E i \in DOMAIN log : log[i].ev = "execute"
        /\ LastExecuted \in DOMAIN orders
        /\ orders[LastExecuted].status = "IN_PROGRESS"
        /\ orders[LastExecuted].order_type = "REACH_WAYPOINT"
        /\ TargetsSet(u) = { "wormhole_jump_target" }

\* the orders of the trees rooted in ids
RECURSIVE TreeOf(_, _)
TreeOf(ords, ids) ==
    LET below == UNION { { ords[o].sub_orders[i] : i \in DOMAIN ords[o].sub_orders } : o \in ids }
    IN IF below \subseteq ids THEN ids ELSE TreeOf(ords, ids \cup below)

\* C11: cancel_order(id) with the id of the active order sets that order and
\* every order of its sub-order tree to CANCELLED, removes it from the
\* commander and, in the same call, promotes and executes the head of the
\* backlog; with the id of a backlog entry it cancels that entry and its
\* descendants and removes it, while the active order (with its tree) and the
\* relative order of the remaining backlog entries stay as they were.
C11_CancelOrder ==
    [][\A u \in Units :
          last_op' = Op("cancel_order", u) =>
              LET id == log'[1].id
                  tree == TreeOf(orders, { id })
              IN /\ log'[1].ev = "cancel"
                 /\ tree = { log'[i].id : i \in { k \in DOMAIN log' : log'[k].ev = "cancel" } }
                 /\ \A i \in DOMAIN log' :
                       log'[i].id \in tree =>
                           (log'[i].ev = "cancel" /\ log'[i].status = "CANCELLED")
                 /\ tree \cap DOMAIN orders' = { }
                 /\ current_order'[u] # id
                 /\ \A i \in DOMAIN orders_queue'[u] : orders_queue'[u][i] # id
                 /\ IF current_order[u] = id
                    THEN IF orders_queue[u] = << >>
                         THEN current_order'[u] = NoOrder /\ orders_queue'[u] = << >>
                         ELSE /\ current_order'[u] = Head(orders_queue[u])
                              /\ orders_queue'[u] = Tail(orders_queue[u])
                              /\ \E i \in DOMAIN log' :
                                    log'[i].ev = "execute" /\ log'[i].id = Head(orders_queue[u])
                              /\ orders'[current_order'[u]].status # "PENDING"
                    ELSE /\ current_order'[u] = current_order[u]
                         /\ Len(orders_queue'[u]) = Len(orders_queue[u]) - 1
                         /\ orders_queue'[u] = SelectSeq(orders_queue[u], LAMBDA q : q # id)
                         /\ \A o \in TreeOf(orders, { current_order[u] } \ { NoOrder }) :
                               o \in DOMAIN orders' /\ orders'[o] = orders[o]
                         /\ \A i \in DOMAIN log' : log'[i].ev = "cancel"]_vars

\* C11 witness: cancel_order has cancelled an active order with sub-orders and
\* promoted the head of a backlog of which two entries are still waiting
C11_Witness ==
    \E u \in Units :
        /\ last_op = Op("cancel_order", u)
        /\ Cardinality({ i \in DOMAIN log : log[i].ev = "cancel" }) >= 2
        /\ \E i \in DOMAIN log : log[i].ev = "execute" /\ log[i].id = current_order[u]
        /\ Len(orders_queue[u]) >= 2

\* C12: when cancel_order has cancelled the active order and the backlog is
\* empty, none of move_target, hex_jump_target and wormhole_jump_target of
\* the unit is set any more.
C12_CancelClearsTargets ==
    \A u \in Units :
        (/\ last_op = Op("cancel_order", u)
         /\ log # << >> /\ log[1].ev = "cancel" /\ log[1].parent = NoOrder
         /\ current_order[u] = NoOrder
         /\ orders_queue[u] = << >>) =>
            TargetsSet(u) = { }

\* C13: after clear_orders() the commander has no current order and an empty
\* backlog, every order it held is CANCELLED with all its descendants, and
\* move_target, hex_jump_target and wormhole_jump_target of the unit are
\* unset, while the unit's system, hex and position and the drive's
\* jump_status and recharge countdown are what they were.
C13_ClearOrders ==
    [][\A u \in Units :
          last_op' = Op("clear_orders", u) =>
              LET held == TreeOf(orders, ({ current_order[u] } \ { NoOrder })
                                         \cup { orders_queue[u][i] : i \in DOMAIN orders_queue[u] })
              IN /\ current_order'[u] = NoOrder
                 /\ orders_queue'[u] = << >>
                 /\ held = { log'[i].id : i \in DOMAIN log' }
                 /\ \A i \in DOMAIN log' :
                       log'[i].ev = "cancel" /\ log'[i].status = "CANCELLED"
                 /\ held \cap DOMAIN orders' = { }
                 /\ HasEngines(u) => move_target'[u] = None
                 /\ HasHyperdrive(u) =>
                       /\ hex_jump_target'[u] = None
                       /\ wormhole_jump_target'[u] = None
                       /\ jump_status'[u] = jump_status[u]
                       /\ recharge_time_remaining'[u] = recharge_time_remaining[u]
                 /\ in_system'[u] = in_system[u]
                 /\ in_hex'[u] = in_hex[u]
                 /\ position'[u] = position[u]]_vars

\* C13 witness: clear_orders has cancelled a current order with a sub-order
\* and a backlog entry of a unit whose drive is recharging
C13_Witness ==
    \E u \in HyperdriveUnits :
        /\ last_op = Op("clear_orders", u)
        /\ jump_status[u] = "CHARGING"
        /\ recharge_time_remaining[u] > 0
        /\ \E i \in DOMAIN log : log[i].parent # NoOrder
        /\ \E i \in 2..Len(log) : log[i].parent = NoOrder
        /\ TargetsSet(u) = { }

\* C14: the orders given to a Commander are started in the order they were
\* added.  add_order executes the new order at once exactly when no order is
\* active (clear_orders may have run just before); otherwise the order goes
\* to the end of the backlog, PENDING, and nothing is executed.  The backlog
\* holds PENDING orders, oldest first, all younger than the current order.
\* An order is executed only from the head of the backlog (or as the order
\* just added), after the order that was current has been discarded in a
\* terminal status or cancelled, so that no older order is still held.
C14_StartedInOrder ==
    [][\A u \in Units :
          LET cleared == \E i \in DOMAIN log' : log'[i].ev = "cancel"
              started == { log'[k].id : k \in { i \in DOMAIN log' :
                                                  log'[i].ev = "execute"
                                                  /\ log'[i].parent = NoOrder } }
          IN /\ \A i, j \in DOMAIN orders_queue'[u] :
                   i < j => orders_queue'[u][i] < orders_queue'[u][j]
             /\ \A i \in DOMAIN orders_queue'[u] :
                   /\ orders'[orders_queue'[u][i]].status = "PENDING"
                   /\ current_order'[u] # NoOrder
                   /\ current_order'[u] < orders_queue'[u][i]
             /\ last_op' = Op("add_order", u) =>
                   IF current_order[u] = NoOrder \/ cleared
                   THEN /\ started = { order_counter }
                        /\ current_order'[u] = order_counter
                        /\ orders_queue'[u] = << >>
                   ELSE /\ started = { }
                        /\ current_order'[u] = current_order[u]
                        /\ orders_queue'[u] = Append(orders_queue[u], order_counter)
                        /\ orders'[order_counter].status = "PENDING"
             /\ last_op'.unit = u =>
                   \A k \in DOMAIN log' :
                      (log'[k].ev = "execute" /\ log'[k].parent = NoOrder) =>
                          /\ started = { log'[k].id }
                          /\ \/ orders_queue[u] # << >> /\ log'[k].id = Head(orders_queue[u])
                             \/ last_op'.op = "add_order" /\ log'[k].id = order_counter
                          /\ current_order[u] # NoOrder =>
                                \E j \in 1..(k - 1) :
                                    /\ log'[j].id = current_order[u]
                                    /\ log'[j].ev \in { "discard", "cancel" }
                                    /\ log'[j].status \in Terminal
                          /\ current_order'[u] = log'[k].id
                          /\ \A o \in DOMAIN orders' :
                                (orders'[o].unit = u /\ orders'[o].parent_order = NoOrder) =>
                                    o >= log'[k].id]_vars

\* C14 witness: an update has discarded the finished current order and
\* executed the order that had waited in the backlog behind it
C14_Witness ==
    \E u \in Units :
        /\ last_op = Op("UnitUpdate", u)
        /\ \E j, k \in DOMAIN log :
              /\ j < k
              /\ log[j].ev = "discard" /\ log[j].status = "COMPLETED"
              /\ log[k].ev = "execute" /\ log[k].parent = NoOrder
              /\ log[k].id = current_order[u]
              /\ log[j].id < log[k].id

\* C15: update() on an order that is COMPLETED, FAILED or CANCELLED changes
\* nothing.  In particular no sub-order of such an order is executed, updated
\* or popped by the call, also when the order is FAILED, still holds
\* sub-orders and is updated by Commander.update as the current order.
C15_TerminalUpdateIsNoOp ==
    \A i \in DOMAIN log :
        (log[i].ev = "update" /\ log[i].status \in Terminal) =>
            \A j \in (i + 1)..Len(log) : log[j].parent # log[i].id

\* C16: a MOVE or REACH_WAYPOINT order becomes COMPLETED only where its
\* sub-order queue is empty, the unit is in the destination system and hex
\* and at the destination position (closer than 0.01, which is the same
\* tick); and where a REACH_WAYPOINT completes, move_target, hex_jump_target
\* and wormhole_jump_target of the unit are all unset.
C16_CompletedAtDestination ==
    \A i \in DOMAIN log :
        (log[i].ev = "completed" /\ log[i].order.order_type \in { "MOVE", "REACH_WAYPOINT" }) =>
            /\ log[i].order.sub_orders = << >>
            /\ log[i].at = << log[i].order.parameters.destination_system_name[1],
                              log[i].order.parameters.destination_hex_coord[1],
                              log[i].order.parameters.destination_position[1] >>
            /\ log[i].order.order_type = "REACH_WAYPOINT" =>
                  log[i].targets = << None, None, None >>

\* C16 witness: one update has seen the last REACH_WAYPOINT of a MOVE
\* complete after a jump, and then the MOVE itself
C16_Witness ==
    \E i, j \in DOMAIN log :
        /\ i < j
        /\ log[i].ev = "completed" /\ log[i].order.order_type = "REACH_WAYPOINT"
        /\ log[j].ev = "completed" /\ log[j].order.order_type = "MOVE"
        /\ log[i].parent = log[j].id
        /\ at_turn_start # << >>
        /\ \E u \in Units : /\ last_op = Op("UnitUpdate", u)
                             /\ at_turn_start.in_hex[u] # in_hex[u]

\* C17: for a destination in another hex of the unit's system, no inhibition
\* zones and a hyperdrive of range r >= 1, the hexes of the planned
\* REACH_WAYPOINT sub-orders form a chain: the first is within r of the
\* unit's hex, each next one within r of the one before, the last is the
\* destination hex, and there are at most ceil(d / r) of them
C17_JumpChain ==
    jump_path # << >> =>
        LET waypoints == jump_path.waypoints
            r == jump_path.max_range
            d == HexSteps(jump_path.start_hex, jump_path.end_hex)
        IN /\ waypoints # << >>
           /\ HexSteps(jump_path.start_hex, waypoints[1]) <= r
           /\ \A i \in 1 .. Len(waypoints) - 1 : HexSteps(waypoints[i], waypoints[i + 1]) <= r
           /\ waypoints[Len(waypoints)] = jump_path.end_hex
           /\ Len(waypoints) * r < d + r

\* C18: a MOVE to another system whose planning did not fail has, in its
\* sub-order queue, the waypoint at the exit wormhole (system, hex and
\* position) right after the waypoint at the entry wormhole (unless that one
\* is already done), and its last sub-order targets exactly the MOVE's
\* destination system, hex and position
C18_RouteThroughWormholes ==
    \A i \in DOMAIN log :
        (/\ log[i].ev = "execute"
         /\ log[i].order.order_type = "MOVE"
         /\ log[i].at[1] # log[i].order.parameters.destination_system_name[1]
         /\ log[i].id \in DOMAIN orders
         /\ orders[log[i].id].status = "IN_PROGRESS") =>
            LET subs == orders[log[i].id].sub_orders
                destination == log[i].order.parameters
                TargetOf(s) == << orders[s].order_type,
                                  orders[s].parameters.destination_system_name[1],
                                  orders[s].parameters.destination_hex_coord[1],
                                  orders[s].parameters.destination_position[1] >>
            IN /\ subs # << >>
               /\ \E wh \in DOMAIN Wormholes, k \in DOMAIN subs :
                     /\ Wormholes[wh].in_system = log[i].at[1]
                     /\ Wormholes[wh].exit_system_name = destination.destination_system_name[1]
                     /\ TargetOf(subs[k]) =
                            << "REACH_WAYPOINT", Wormholes[wh].exit_system_name,
                               Wormholes[Wormholes[wh].exit_wormhole_id].in_hex,
                               Wormholes[Wormholes[wh].exit_wormhole_id].position >>
                     /\ k > 1 => TargetOf(subs[k - 1]) =
                            << "REACH_WAYPOINT", Wormholes[wh].in_system,
                               Wormholes[wh].in_hex, Wormholes[wh].position >>
               /\ TargetOf(subs[Len(subs)]) =
                      << "REACH_WAYPOINT", destination.destination_system_name[1],
                         destination.destination_hex_coord[1],
                         destination.destination_position[1] >>

\* C19: a MOVE to another hex or system that is planned while the unit's
\* position lies inside an inhibition zone of its hex has, as its first
\* sub-order, a REACH_WAYPOINT in the unit's system and hex at a position
\* outside the zone; the sub-orders that leave the hex all come after it
C19_EscapeFirst ==
    \A i \in DOMAIN log :
        (/\ log[i].ev = "execute"
         /\ log[i].order.order_type = "MOVE"
         /\ log[i].id \in DOMAIN orders
         /\ InAZone(log[i].at[1], log[i].at[2], log[i].at[3])
         /\ \/ log[i].at[1] # log[i].order.parameters.destination_system_name[1]
            \/ log[i].at[2] # log[i].order.parameters.destination_hex_coord[1]) =>
            LET subs == orders[log[i].id].sub_orders
                LeavesHex(s) ==
                    \/ orders[s].parameters.destination_system_name[1] # log[i].at[1]
                    \/ orders[s].parameters.destination_hex_coord[1] # log[i].at[2]
            IN /\ subs # << >>
               /\ orders[subs[1]].order_type = "REACH_WAYPOINT"
               /\ ~ LeavesHex(subs[1])
               /\ ~ InAZone(log[i].at[1], log[i].at[2],
                            orders[subs[1]].parameters.destination_position[1])
               /\ \A k \in DOMAIN subs : LeavesHex(subs[k]) => k > 1

\* a ship inside a zone has planned a MOVE that leaves its hex: the escape
\* waypoint is followed by a sub-order for another hex or system
C19_Witness ==
    \E i \in DOMAIN log :
        /\ log[i].ev = "execute"
        /\ log[i].order.order_type = "MOVE"
        /\ log[i].id \in DOMAIN orders
        /\ InAZone(log[i].at[1], log[i].at[2], log[i].at[3])
        /\ Len(orders[log[i].id].sub_orders) > 1
        /\ orders[orders[log[i].id].sub_orders[1]].parameters.destination_hex_coord[1]
              = log[i].at[2]
        /\ \E k \in DOMAIN orders[log[i].id].sub_orders :
              orders[orders[log[i].id].sub_orders[k]].parameters.destination_hex_coord[1]
                 # log[i].at[2]

\* C20: a MOVE whose route planning failed is FAILED with an empty sub-order
\* queue when execute() returns: no REACH_WAYPOINT planned before the
\* failure is left in it
C20_FailedPlanLeavesNothing ==
    \A i \in DOMAIN log :
        (/\ log[i].ev = "execute"
         /\ log[i].order.order_type = "MOVE"
         /\ log[i].id \in DOMAIN orders
         /\ orders[log[i].id].status = "FAILED") =>
            orders[log[i].id].sub_orders = << >>

\* a REACH_WAYPOINT of the unit is IN_PROGRESS
WaypointInProgress(u) ==
    \E o \in DOMAIN orders :
        /\ orders[o].unit = u
        /\ orders[o].order_type = "REACH_WAYPOINT"
        /\ orders[o].status = "IN_PROGRESS"

\* C21: once a failed validation has left the hyperdrive in ERROR without a
\* jump target, the REACH_WAYPOINT that asked for the jump does not stay
\* IN_PROGRESS for ever: a target is configured again or the order ends
C21_ErrorIsDetected ==
    \A u \in HyperdriveUnits :
        (/\ jump_status[u] = "ERROR"
         /\ hex_jump_target[u] = None
         /\ wormhole_jump_target[u] = None
         /\ move_target[u] = None
         /\ WaypointInProgress(u))
          ~> (\/ ~ WaypointInProgress(u)
              \/ hex_jump_target[u] # None
              \/ wormhole_jump_target[u] # None
              \/ move_target[u] # None)

\* C22: find_hex_jump_path(a, b, r) returns a non-empty list without
\* consecutive repeats that ends with b, whose hops (from a to the first
\* element and between neighbours) are at most r hexes long; it is [b] when
\* b is within r of a
C22_PathContract ==
    jump_path # << >> =>
        LET a == jump_path.start_hex
            b == jump_path.end_hex
            r == jump_path.max_range
            hops == << a >> \o jump_path.waypoints
        IN /\ Len(hops) > 1
           /\ hops[Len(hops)] = b
           /\ \A i \in 2 .. Len(hops) - 1 : hops[i] # hops[i + 1]
           /\ \A i \in 1 .. Len(hops) - 1 : HexSteps(hops[i], hops[i + 1]) <= r
           /\ HexSteps(a, b) <= r => jump_path.waypoints = << b >>

RECURSIVE WithinHops(_, _, _)
\* the nodes that n or fewer edges lead to from the nodes of from
WithinHops(graph, from, n) ==
    IF n = 0 THEN from
    ELSE WithinHops(graph,
                    from \cup { m \in DOMAIN graph :
                                  \E k \in from \cap DOMAIN graph :
                                      \E i \in DOMAIN graph[k] : graph[k][i] = m },
                    n - 1)

EntriesOf(system_name, hex, u) ==
    { i \in DOMAIN dynamic_inhibition_zones[system_name][hex] :
        dynamic_inhibition_zones[system_name][hex][i].unit = u }

\* C25: between two operations, a hex's dynamic inhibition map has an entry
\* keyed by unit u exactly when u is in that hex with its emitter active, and
\* the circle of that entry has u's position as its centre and the emitter's
\* radius
C25_ZoneFollowsUnit ==
    pc = "idle" =>
        \A u \in Units, system_name \in SystemNames :
            \A hex \in Hexes(system_name) :
                LET here == /\ IsSet(inhibitor_component[u])
                            /\ is_active[u]
                            /\ in_system[u] = system_name
                            /\ in_hex[u] = hex
                IN /\ (EntriesOf(system_name, hex, u) # {}) <=> here
                   /\ \A i \in EntriesOf(system_name, hex, u) :
                         /\ dynamic_inhibition_zones[system_name][hex][i].zone.center
                              = position[u]
                         /\ dynamic_inhibition_zones[system_name][hex][i].zone.radius
                              = inhibitor_component[u][1]

\* the circle an emitter of unit u would cover lies inside the boundary
\* circle of u's hex and meets none of the hex's inhibition zones
FieldFits(u) ==
    LET c == position[u]
        r == inhibitor_component[u][1]
        static == static_inhibition_zones(in_system[u], in_hex[u])
        dynamic == dynamic_inhibition_zones[in_system[u]][in_hex[u]]
        Meets(zone) == (c.x - zone.center.x) * (c.x - zone.center.x)
                         + (c.y - zone.center.y) * (c.y - zone.center.y)
                       < (r + zone.radius) * (r + zone.radius)
    IN /\ r <= SECTOR_CIRCLE_RADIUS_LOGICAL
       /\ c.x * c.x + c.y * c.y
            <= (SECTOR_CIRCLE_RADIUS_LOGICAL - r) * (SECTOR_CIRCLE_RADIUS_LOGICAL - r)
       /\ \A i \in DOMAIN static : ~ Meets(static[i])
       /\ \A i \in DOMAIN dynamic : ~ Meets(dynamic[i].zone)

\* the TOGGLE_INHIBITOR orders the step at hand has executed
ToggledNow ==
    { i \in DOMAIN log' : /\ log'[i].ev = "execute"
                          /\ log'[i].order.order_type = "TOGGLE_INHIBITOR" }

\* C24: a TOGGLE_INHIBITOR order that execute() has run is COMPLETED or
\* FAILED; with turn_on = true and a proposed circle that is not inside the
\* boundary circle or meets a zone of the hex, it is FAILED, and the emitter
\* and the dynamic zones of every hex are as they were before the call (an
\* emitter that was inactive stays inactive, with no zone registered; one
\* that was active stays active, with its zone)
C24_ToggleEnds ==
    [][\A i \in ToggledNow :
          LET id == log'[i].id
              u == log'[i].order.unit
          IN /\ id \in DOMAIN orders'
             /\ orders'[id].status \in { "COMPLETED", "FAILED" }
             /\ (log'[i].order.parameters.turn_on /\ ~ FieldFits(u)) =>
                   /\ orders'[id].status = "FAILED"
                   /\ is_active' = is_active
                   /\ dynamic_inhibition_zones' = dynamic_inhibition_zones]_vars

\* C24 witness: a TOGGLE_INHIBITOR with turn_on = true has just failed for
\* an emitter that is inactive, at a place where the circle does not fit
C24_Witness ==
    \E i \in DOMAIN log :
        /\ log[i].ev = "execute"
        /\ log[i].order.order_type = "TOGGLE_INHIBITOR"
        /\ log[i].order.parameters.turn_on
        /\ log[i].id \in DOMAIN orders
        /\ orders[log[i].id].status = "FAILED"
        /\ ~ is_active[log[i].order.unit]
        /\ ~ FieldFits(log[i].order.unit)

\* C24 as stated: whenever the circle does not fit, the order is FAILED, the
\* emitter is inactive afterwards and the unit has no dynamic zone
C24_ToggleFailsInactive ==
    [][\A i \in ToggledNow :
          LET id == log'[i].id
              u == log'[i].order.unit
          IN /\ id \in DOMAIN orders'
             /\ orders'[id].status \in { "COMPLETED", "FAILED" }
             /\ (log'[i].order.parameters.turn_on /\ ~ FieldFits(u)) =>
                   /\ orders'[id].status = "FAILED"
                   /\ ~ is_active'[u]
                   /\ \A j \in DOMAIN dynamic_inhibition_zones'[in_system[u]][in_hex[u]] :
                         dynamic_inhibition_zones'[in_system[u]][in_hex[u]][j].unit # u]_vars

\* the cost of a template in the list of buildable units (0 - 1 when the
\* list does not have it)
CostOf(unit_template_name) ==
    IF \E i \in DOMAIN buildable_units :
          buildable_units[i].unit_template_name = unit_template_name
    THEN buildable_units[CHOOSE i \in DOMAIN buildable_units :
             buildable_units[i].unit_template_name = unit_template_name].cost_credits
    ELSE 0 - 1

\* the constructor of unit u has just been set to work on what the order
\* execute() ran last asks for
ConstructionStarted(u) ==
    /\ constructor_component'[u] # None
    /\ constructor_component'[u][1].current_construction_target
         = << << construct_order'.parameters.unit_template_name,
                 construct_order'.parameters.target_position >> >>
    /\ constructor_component'[u][1].construction_progress = 0

\* C26: a CONSTRUCT order of a unit with a constructor, for a buildable
\* template, executed while the owner's credits cover the cost, takes exactly
\* the cost from the owner's credits and sets the constructor's target; and a
\* CONSTRUCT order is COMPLETED only if the construction was started
C26_PaysOnce ==
    [][\A u \in Units :
          last_op' = Op("construct", u) =>
              LET cost == CostOf(construct_order'.parameters.unit_template_name)
                  owner == UnitDef[u].owner
              IN /\ (/\ constructor_component[u] # None
                     /\ cost >= 0
                     /\ credits[owner] >= cost) =>
                        /\ credits'[owner] = credits[owner] - cost
                        /\ ConstructionStarted(u)
                 /\ construct_order'.status = "COMPLETED" => ConstructionStarted(u)]_vars

\* C27: a CONSTRUCT order executed while the owner's credits are below the
\* template's cost is FAILED and leaves the credits and the constructor's
\* target, progress and time_to_build as they were; and no step leaves a
\* player with negative credits
C27_NoCreditsNoConstruction ==
    [][/\ \A u \in Units :
             last_op' = Op("construct", u) =>
                 LET cost == CostOf(construct_order'.parameters.unit_template_name)
                 IN (/\ constructor_component[u] # None
                     /\ cost >= 0
                     /\ credits[UnitDef[u].owner] < cost) =>
                        /\ construct_order'.status = "FAILED"
                        /\ credits' = credits
                        /\ constructor_component' = constructor_component
       /\ \A player \in DOMAIN credits' : credits'[player] >= 0]_vars

\* C27 witness: a CONSTRUCT order has just failed for want of credits while
\* the unit's constructor is at work on an earlier one
C27_Witness ==
    /\ construct_order # << >>
    /\ last_op = Op("construct", construct_order.unit)
    /\ construct_order.status = "FAILED"
    /\ constructor_component[construct_order.unit] # None
    /\ CostOf(construct_order.parameters.unit_template_name) >= 0
    /\ credits[UnitDef[construct_order.unit].owner]
         < CostOf(construct_order.parameters.unit_template_name)
    /\ constructor_component[construct_order.unit][1].construction_progress > 0

\* ------------------------------------------------------------------------
\* COLONIZE and LOAD_COLONISTS
\* ------------------------------------------------------------------------
ColonyOrderTypes == { "COLONIZE", "LOAD_COLONISTS" }

\* the events of the step at hand on orders to colonise or to load
ColonyEvents(ev) ==
    { i \in DOMAIN log' : /\ log'[i].ev = ev
                          /\ log'[i].order.order_type \in ColonyOrderTypes
                          /\ log'[i].order.parameters.target_id \in DOMAIN ColonisableBodies
                          /\ colony_component[log'[i].order.unit] # None }

\* the unit of the event was in the hex of the body of its order
EventAtBody(e) ==
    /\ e.at[1] = ColonisableBodies[e.order.parameters.target_id].in_system
    /\ e.at[2] = ColonisableBodies[e.order.parameters.target_id].in_hex

\* the cargo transfer of the order can be done: the conditions of
\* load_population and unload_population on the state before the step
TransferSucceeds(e) ==
    LET body == bodies[e.order.parameters.target_id]
        cargo == colony_component[e.order.unit][1]
        player == << UnitDef[e.order.unit].owner >>
    IN IF e.order.order_type = "LOAD_COLONISTS"
       THEN /\ body.owner = player
            /\ body.population >= e.order.parameters.amount * PopulationScale
            /\ cargo + e.order.parameters.amount <= 100
       ELSE /\ cargo > 0
            /\ body.owner \in { << >>, player }

\* the order has ended with the status after the event numbered i
EndedWith(order_id, status, i) ==
    /\ order_id \in DOMAIN orders' => orders'[order_id].status = status
    /\ status = "COMPLETED" =>
          \E j \in DOMAIN log' : j > i /\ log'[j].ev = "completed" /\ log'[j].id = order_id
    /\ status = "FAILED" =>
          ~ \E j \in DOMAIN log' : log'[j].ev = "completed" /\ log'[j].id = order_id

\* executed at the body, the order ends with the outcome of its transfer
ColocatedEnds ==
    \A i \in ColonyEvents("execute") :
        EventAtBody(log'[i]) =>
            EndedWith(log'[i].id, IF TransferSucceeds(log'[i]) THEN "COMPLETED" ELSE "FAILED", i)

\* executed elsewhere, the order gives itself a MOVE to the body and then
\* an order of its own type
PlansTransfer ==
    \A i \in ColonyEvents("execute") :
        (~ EventAtBody(log'[i]) /\ log'[i].order.sub_orders = << >>) =>
            /\ log'[i].id \in DOMAIN orders'
            /\ Len(orders'[log'[i].id].sub_orders) = 2
            /\ LET move == orders'[orders'[log'[i].id].sub_orders[1]]
                   transfer == orders'[orders'[log'[i].id].sub_orders[2]]
               IN /\ move.order_type = "MOVE"
                  /\ move.parameters.destination_system_name
                        = << ColonisableBodies[log'[i].order.parameters.target_id].in_system >>
                  /\ move.parameters.destination_hex_coord
                        = << ColonisableBodies[log'[i].order.parameters.target_id].in_hex >>
                  /\ transfer.order_type = log'[i].order.order_type
                  /\ transfer.parameters.target_id = log'[i].order.parameters.target_id

\* when the trailing sub-order has ended and is taken from its parent, the
\* parent ends with the status of the sub-order
ParentFollows ==
    \A i \in ColonyEvents("pop") :
        (log'[i].parent # NoOrder /\ log'[i].status \in { "COMPLETED", "FAILED" }) =>
            EndedWith(log'[i].parent, log'[i].status, i)

\* C28: a COLONIZE or LOAD_COLONISTS order executed in the hex of its body
\* ends COMPLETED if its cargo transfer succeeded and FAILED if not; executed
\* elsewhere it gives itself exactly a MOVE to the body and an order of its
\* own type, and it ends COMPLETED if the transfer of that trailing
\* sub-order succeeded and FAILED if it failed.
C28_EndsWithTransfer == [][ColocatedEnds /\ PlansTransfer /\ ParentFollows]_vars

\* ------------------------------------------------------------------------
\* The order of movement resolution and jumps within a turn
\* ------------------------------------------------------------------------
\* the units that a jump of the turn at hand has brought to another hex or
\* another system
JumpedThisTurn ==
    { u \in DOMAIN in_system : \/ in_system[u] # at_turn_start.in_system[u]
                    \/ in_hex[u] # at_turn_start.in_hex[u] }

\* the step is the first loop of process_turn over a system, and it has
\* moved a unit at sub-light speed or queued a jump
ResolvesMovement ==
    /\ last_op'.op = "MoveSystem"
    /\ units_to_move' # << >> \/ position' # position

\* C29: within one process_turn, the movement resolution of every system
\* (sub-light steps and the queuing of jumps) is finished before the first
\* jump of the turn is executed: no system's units are resolved after a unit
\* has jumped.
C29_MovementBeforeJumps == [][ResolvesMovement => JumpedThisTurn = {}]_vars

\* ------------------------------------------------------------------------
\* Sub-light movement
\* ------------------------------------------------------------------------
\* the units the first loop of process_turn over the system at hand moves at
\* sub-light speed: units of the acting player in that system with a
\* move_target and no jump target
SublightUnits ==
    { u \in DOMAIN move_target :
        /\ pc = "movement"
        /\ UnitDef[u].owner = Players[current_player_index]
        /\ in_system[u] = Systems[system_index]
        /\ move_target[u] # << >>
        /\ u \in DOMAIN hex_jump_target =>
              hex_jump_target[u] = << >> /\ wormhole_jump_target[u] = << >> }

\* the square of the number of ticks between two positions
TicksSquared(p, q) == (p.x - q.x) * (p.x - q.x) + (p.y - q.y) * (p.y - q.y)

\* the number of steps of the length that cover the distance: ceil(distance / speed)
TurnsToCover(distance_squared, step) ==
    CHOOSE n \in 0..((2 * SECTOR_CIRCLE_RADIUS_LOGICAL) \div step + 1) :
        /\ (n * step) * (n * step) >= distance_squared
        /\ \A k \in 0..(n - 1) : (k * step) * (k * step) < distance_squared

\* the step of the unit from p to q towards the target: on the straight line
\* to the target, not past it, of the length of the speed unless the target
\* is nearer, and then onto the target, which clears move_target. Positions
\* are rounded to a tick in each coordinate, which the lengths allow for
\* with two ticks.
StraightStep(u, p, q, target, cleared) ==
    LET step == UnitDef[u].engines_speed[1]
        across == (target.x - p.x) * (q.y - p.y) - (target.y - p.y) * (q.x - p.x)
        along == (target.x - p.x) * (target.x - q.x) + (target.y - p.y) * (target.y - q.y)
        reach == (IF target.x >= p.x THEN target.x - p.x ELSE p.x - target.x)
                 + (IF target.y >= p.y THEN target.y - p.y ELSE p.y - target.y)
    IN /\ TicksSquared(q, target) <= TicksSquared(p, target)
       /\ along >= 0
       /\ across <= 2 * reach /\ 0 - across <= 2 * reach
       /\ IF TicksSquared(p, target) <= step * step
          THEN q = target /\ cleared
          ELSE /\ TicksSquared(p, q) >= (step - 2) * (step - 2)
               /\ TicksSquared(p, q) <= (step + 2) * (step + 2)
               /\ TurnsToCover(TicksSquared(q, target), step)
                     <= TurnsToCover(TicksSquared(p, target), step) - 1
               /\ cleared <=> q = target

TerminalStatuses == { "COMPLETED", "FAILED", "CANCELLED" }

\* the orders that Order.cancel is called on in the step at hand
CancelledNow == { log'[i].id : i \in { j \in DOMAIN log' : log'[j].ev = "cancel" } }

\* C35: terminal statuses are absorbing: once an order is COMPLETED, FAILED
\* or CANCELLED, no later operation changes its status.
C35_TerminalAbsorbing ==
    [][\A id \in DOMAIN orders :
          orders[id].status \in TerminalStatuses =>
              /\ id \in DOMAIN orders' => orders'[id].status = orders[id].status
              /\ id \in CancelledNow => orders[id].status = "CANCELLED"]_vars

\* ------------------------------------------------------------------------
\* JUMPING
\* ------------------------------------------------------------------------
\* C40: JUMPING is a transient status: a hyperdrive is JUMPING only between
\* the start of a jump attempt and its end in the same turn, so that no
\* hyperdrive is JUMPING when process_turn returns and none is JUMPING when
\* its jump attempt starts.
C40_JumpingIsTransient ==
    \A u \in DOMAIN jump_status :
        jump_status[u] = "JUMPING" =>
            /\ pc = "jumping"
            /\ units_to_move # << >>
            /\ Head(units_to_move).unit = u

\* a jump attempt has ended in ERROR
C40_Witness ==
    /\ last_op.op = "JumpExecute"
    /\ pc = "jumps"
    /\ jump_status[last_op.unit] = "ERROR"

\* ------------------------------------------------------------------------
\* The units of the other players
\* ------------------------------------------------------------------------
TurnSteps ==
    { "ProcessTurnBegin", "MoveSystem", "JumpBegin", "JumpExecute", "NextSystem",
      "UnitUpdate", "EndTurn" }

\* the step leaves the place, the drive, the engines, the commander and the
\* orders of the unit as they are
UnitUntouched(u) ==
    /\ in_system'[u] = in_system[u]
    /\ in_hex'[u] = in_hex[u]
    /\ position'[u] = position[u]
    /\ u \in DOMAIN jump_status =>
          /\ jump_status'[u] = jump_status[u]
          /\ recharge_time_remaining'[u] = recharge_time_remaining[u]
          /\ hex_jump_target'[u] = hex_jump_target[u]
          /\ wormhole_jump_target'[u] = wormhole_jump_target[u]
    /\ u \in DOMAIN move_target => move_target'[u] = move_target[u]
    /\ current_order'[u] = current_order[u]
    /\ orders_queue'[u] = orders_queue[u]
    /\ \A id \in DOMAIN orders :
          orders[id].unit = u => id \in DOMAIN orders' /\ orders'[id] = orders[id]
    /\ \A id \in DOMAIN orders' : orders'[id].unit = u => id \in DOMAIN orders

C33_IdleUnitHasNoTarget ==
    \A u \in DOMAIN current_order :
        (current_order[u] = NoOrder /\ orders_queue[u] = << >>) =>
            /\ u \in DOMAIN move_target => move_target[u] = << >>
            /\ u \in DOMAIN hex_jump_target =>
                  hex_jump_target[u] = << >> /\ wormhole_jump_target[u] = << >>

\* ------------------------------------------------------------------------
\* One movement per unit and turn
\* ------------------------------------------------------------------------
\* the unit is not where it was when the turn at hand began
MovedThisTurn(u) ==
    \/ in_system[u] # at_turn_start.in_system[u]
    \/ in_hex[u] # at_turn_start.in_hex[u]
    \/ position[u] # at_turn_start.position[u]

\* C36: in one process_turn each unit is moved at most once: a unit that a
\* sub-light step or a jump of the turn has moved stays where that has
\* brought it until the turn is over, also in a system that the loop over
\* the systems comes to later; and a sub-light movement is one step, not
\* longer than the speed.
C36_MovedAtMostOnce ==
    [][pc # "idle" =>
          \A u \in DOMAIN in_system :
              /\ MovedThisTurn(u) =>
                    /\ in_system'[u] = in_system[u]
                    /\ in_hex'[u] = in_hex[u]
                    /\ position'[u] = position[u]
              /\ (last_op'.op = "MoveSystem" /\ u \in DOMAIN move_target) =>
                    (position'[u].x - position[u].x) * (position'[u].x - position[u].x)
                    + (position'[u].y - position[u].y) * (position'[u].y - position[u].y)
                       <= (UnitDef[u].engines_speed[1] + 2) * (UnitDef[u].engines_speed[1] + 2)]_vars

\* a unit has jumped through the wormhole into the system that is processed
\* second, and the movement loop of that system has run in the same turn
C36_Witness ==
    /\ last_op.op = "MoveSystem"
    /\ system_index = 2
    /\ \E u \in DOMAIN in_system :
          /\ UnitDef[u].owner = Players[current_player_index]
          /\ in_system[u] = Systems[2]
          /\ at_turn_start.in_system[u] = Systems[1]

\* ------------------------------------------------------------------------
\* System jumps
\* ------------------------------------------------------------------------
\* the units that the step at hand takes to another system
SystemJumpers == { u \in DOMAIN in_system : in_system'[u] # in_system[u] }

\* C34: the turn processor takes a unit to another system only when the unit
\* is in the system and the hex of the wormhole that is its
\* wormhole_jump_target and at that wormhole's position, and the jump leaves
\* it in the system and hex of the exit wormhole at the exit wormhole's
\* position.
C34_SystemJumpFromWormhole ==
    [][\A u \in SystemJumpers :
          /\ u \in DOMAIN wormhole_jump_target
          /\ wormhole_jump_target[u] # << >>
          /\ LET entry == Wormholes[wormhole_jump_target[u][1]]
                 exit == Wormholes[entry.exit_wormhole_id]
             IN /\ in_system[u] = entry.in_system
                /\ in_hex[u] = entry.in_hex
                /\ position[u] = entry.position
                /\ in_system'[u] = exit.in_system
                /\ in_hex'[u] = exit.in_hex
                /\ position'[u] = exit.position]_vars

\* ------------------------------------------------------------------------
\* C37: a queued jump that ends with the hyperdrive in ERROR leaves the unit
\* in the system and the hex and at the position it had when process_turn
\* began
\* ------------------------------------------------------------------------
FailedJumper == { u \in DOMAIN jump_status :
                     /\ last_op'.op = "JumpExecute" /\ last_op'.unit = u
                     /\ jump_status'[u] = "ERROR" }

BasicInit ==
    NewGame([ u \in { Courier, Station } |-> UnitDef[u].inhibitor_radius ],
            [ u \in { Courier, Station } |-> None ])

BasicNext ==
    \/ \E parameters \in FleetDestinations, shift_pressed \in BOOLEAN :
          IssueMove(Courier, parameters, shift_pressed)
    \/ ProcessTurnBegin
    \/ MoveSystem
    \/ JumpBegin
    \/ JumpExecute
    \/ NextSystem
    \/ UnitUpdate
    \/ EndTurn

BasicSpec == BasicInit /\ [][BasicNext]_vars

BasicDrive(u) ==
    /\ UnitDef[u].hyperdrive # << >>
    /\ UnitDef[u].hyperdrive[1].drive_type = "BASIC"

\* a MOVE executed now for a unit with a BASIC drive, to another system
BasicMovesAbroad ==
    { i \in DOMAIN log' :
         /\ log'[i].ev = "execute"
         /\ log'[i].order.order_type = "MOVE"
         /\ BasicDrive(log'[i].order.unit)
         /\ log'[i].order.parameters.destination_system_name # << log'[i].at[1] >> }

\* C38: a unit with a BASIC hyperdrive is never carried to another system by
\* a wormhole jump, and its MOVE to another system fails when it is planned
C38_BasicDriveStaysInSystem ==
    [][/\ \A u \in SystemJumpers : ~ BasicDrive(u)
       /\ \A i \in BasicMovesAbroad : log'[i].status = "FAILED"]_vars

\* ------------------------------------------------------------------------
\* C31: termination of update and the depth of the order tree
\* ------------------------------------------------------------------------
\* RecursionError is not caught anywhere: the game ends with it
Raised == \E i \in DOMAIN log : log[i].ev = "RecursionError"

\* The game in which the station carries a colony component: it has neither
\* engines nor a hyperdrive, so that the MOVE to the moon fails when it is
\* planned.
BargeInit ==
    NewGame([ u \in Units |-> UnitDef[u].inhibitor_radius ],
            [ u \in Units |-> IF u = Station THEN Some(0) ELSE None ])

BargeNext ==
    \/ \E u \in Units, order_type \in { "COLONIZE", "LOAD_COLONISTS" },
          shift_pressed \in BOOLEAN :
          ~ Raised /\ IssueColony(u, order_type, MoonId, shift_pressed)
    \/ \E u \in Units, parameters \in ColonyDestinations :
          ~ Raised /\ IssueMove(u, parameters, FALSE)
    \/ ~ Raised /\ ProcessTurnBegin
    \/ ~ Raised /\ MoveSystem
    \/ ~ Raised /\ JumpBegin
    \/ ~ Raised /\ JumpExecute
    \/ ~ Raised /\ NextSystem
    \/ ~ Raised /\ UnitUpdate
    \/ ~ Raised /\ EndTurn

BargeSpec == BargeInit /\ [][BargeNext]_vars

RECURSIVE DepthOf(_)
DepthOf(id) ==
    IF orders[id].parent_order \notin DOMAIN orders THEN 0
    ELSE 1 + DepthOf(orders[id].parent_order)

\* C31: update and add_order return, and a COLONIZE or LOAD_COLONISTS order
\* has at most one level of orders of its own type below it: the trailing
\* sub-order does not plan a MOVE and a further order of its type again
C31_OrderTreeBounded ==
    /\ \A i \in DOMAIN log : log[i].ev # "RecursionError"
    /\ \A id \in DOMAIN orders :
          orders[id].order_type \in ColonyOrderTypes => DepthOf(id) <= 1

\* ------------------------------------------------------------------------
\* C32: a MOVE within one system, over several hex jumps, is completed
\* ------------------------------------------------------------------------
\* The game in which the ship is given one MOVE to a place of its system and
\* the players keep ending their turns: a point of its own hex, a point of
\* the next hex, and two hexes three hexes away, twice the jump range of its
\* hyperdrive at most. None of the hexes on the way holds a star, a wormhole,
\* a moon or an emitter that is turned on.
VoyageDestinations ==
    { WaypointParameters("Sol", << 0 - 2, 2 >>, Position(300 * TicksPerUnit, 0)),
      WaypointParameters("Sol", << 0 - 1, 1 >>,
                         Position(0 - 400 * TicksPerUnit, 300 * TicksPerUnit)),
      WaypointParameters("Sol", << 1, 1 >>, Position(0, 0)),
      WaypointParameters("Sol", << 0, 0 - 1 >>,
                         Position(150 * TicksPerUnit, 200 * TicksPerUnit)) }

IssueVoyage(parameters) ==
    /\ orders_issued = 0
    /\ IssueMove(Ship, parameters, FALSE)

VoyageNext ==
    \/ \E parameters \in VoyageDestinations : IssueVoyage(parameters)
    \/ ProcessTurnBegin
    \/ MoveSystem
    \/ JumpBegin
    \/ JumpExecute
    \/ NextSystem
    \/ UnitUpdate
    \/ EndTurn

\* end_turn is called again and again, and process_turn, sequential code of
\* bounded loops, returns every time it is called
VoyageSpec ==
    Init /\ [][VoyageNext]_vars /\ WF_vars(ProcessTurnBegin) /\ []<>(pc = "idle")

Heading(u, d) ==
    /\ current_order[u] # NoOrder
    /\ orders[current_order[u]].order_type = "MOVE"
    /\ orders[current_order[u]].status = "IN_PROGRESS"
    /\ orders[current_order[u]].parameters = d
    /\ jump_status[u] # "ERROR"

CompletedAt(u, d) ==
    \E i \in DOMAIN log :
        /\ log[i].ev = "completed"
        /\ log[i].order.unit = u
        /\ log[i].order.order_type = "MOVE"
        /\ log[i].order.parameters = d
        /\ log[i].at = << d.destination_system_name[1], d.destination_hex_coord[1],
                          d.destination_position[1] >>
        /\ in_hex[u] = d.destination_hex_coord[1]
        /\ position[u] = d.destination_position[1]

\* the movement and jump phases of the owner's turn are over
MovementDone(u) ==
    /\ at_turn_start # << >>
    /\ pc = "updates"
    /\ UnitDef[u].owner = Players[current_player_index]

JumpTiming(u) ==
    \* a drive that was READY with a hex target at the start of the turn has jumped
    /\ (/\ MovementDone(u)
        /\ at_turn_start.hex_jump_target[u] # << >>
        /\ at_turn_start.jump_status[u] = "READY")
          => /\ in_hex[u] = at_turn_start.hex_jump_target[u][1][1]
             /\ position[u] = at_turn_start.hex_jump_target[u][1][2]
             /\ jump_status[u] \in { "CHARGING", "READY" }
    \* between turns a charging drive is at most RECHARGE_DURATION - 1 owner
    \* turns away from READY, the turn of the jump having counted as one
    /\ (pc = "idle" /\ jump_status[u] = "CHARGING")
          => recharge_time_remaining[u] \in 1 .. (UnitDef[u].hyperdrive[1].RECHARGE_DURATION - 1)
    \* every owner turn that defers the jump brings READY one turn closer
    /\ (/\ MovementDone(u)
        /\ u \notin { units_to_update[i] : i \in DOMAIN units_to_update }
        /\ at_turn_start.jump_status[u] = "CHARGING")
          => /\ recharge_time_remaining[u] = at_turn_start.recharge_time_remaining[u] - 1
             /\ jump_status[u] = IF recharge_time_remaining[u] = 0 THEN "READY" ELSE "CHARGING"

====
